---------------------------- MODULE Spec2Model ----------------------------
\* Model of the @ibetoni/cache package: the Redis-backed distributed lock
\* (DistributedLockManager, DistributedLock) and the UniversalCacheManager
\* with its pattern-based cross-entity invalidation.
\*
\* Two specifications share this module:
\*   LockSpec   the lock manager against one Redis server
\*   CacheSpec  the cache manager (get, cache, invalidate*)
\* Each leaves the other's variables unchanged.
EXTENDS Integers, Sequences, FiniteSets, TLC

VARIABLES
  \* ---- Redis server, lock keys ----
  now,        \* the clock, in milliseconds (Date.now() and the server's expiry clock)
  lockStore,  \* lock key -> [val, exp]: the stored owner token and its expiry time
  \* ---- DistributedLockManager / DistributedLock, one call chain per caller ----
  lock,       \* caller -> [pc, resource, ttlMs, lockValue, released]
  \* ---- history of the calls (what each call saw and returned) ----
  acqLog,     \* caller -> what its acquireLock call saw
  relLog,     \* caller -> what the last release() of its handle saw and returned
  \* ---- Redis server, cache keys ----
  cacheStore, \* the cache keys the server holds (each was written by SETEX)
  \* ---- UniversalCacheManager ----
  call,       \* the call in progress, or the last one with what it returned
  prev,       \* what the invalidateByPattern call before this call did
  \* ---- UniversalCacheManager, key and date formatting ----
  eval,       \* the formatting calls to make and the results so far
  \* ---- UniversalCacheManager, the shared connection ----
  conn,       \* client, connectionPromise, isConnected and the getClient calls
  \* ---- CacheMetrics ----
  metrics     \* this.metrics: the invalidation and lock-release counters

lockVars == <<now, lockStore, lock, acqLog, relLog>>

cacheVars == <<cacheStore, call, prev>>

keyVars == <<eval>>

connVars == <<conn>>

metricVars == <<metrics>>

vars ==
  <<now, lockStore, lock, acqLog, relLog, cacheStore, call, prev, eval, conn, metrics>>

-----------------------------------------------------------------------------
\* JavaScript values of the cache manager's arguments
\*
\* A value is [t, s]: its typeof/class and the text String(value) gives, which
\* is what a template literal `${value}` puts into a key or a pattern.

Undefined == [t |-> "undefined", s |-> "undefined"]

Null == [t |-> "null", s |-> "null"]

Num(digits) == [t |-> "number", s |-> digits]

Str(text) == [t |-> "string", s |-> text]

\* a Date object; String(date) is the long local form
DateObj(text) == [t |-> "Date", s |-> text]

\* if (value), value || other: the modelled numbers are non-zero and the
\* modelled strings non-empty, so only a missing field is falsy
Truthy(x) == x.t # "undefined"

Or(x, y) == IF Truthy(x) THEN x ELSE y

\* `${value || "*"}`
OrStar(x) == IF Truthy(x) THEN x.s ELSE "*"

Min(a, b) == IF a <= b THEN a ELSE b

\* String.prototype.substring(0, n)
Substring0(text, n) == SubSeq(text, 1, Min(n, Len(text)))

\* String.prototype.replace(/-/g, "")
RECURSIVE StripDashes(_)
StripDashes(text) ==
  IF text = "" THEN ""
  ELSE IF Head(text) = "-" THEN StripDashes(Tail(text))
  ELSE SubSeq(text, 1, 1) \o StripDashes(Tail(text))

DigitChars == {"0", "1", "2", "3", "4", "5", "6", "7", "8", "9"}

RECURSIVE AllDigits(_)
AllDigits(text) ==
  text = "" \/ (SubSeq(text, 1, 1) \in DigitChars /\ AllDigits(Tail(text)))

\* /^\d{8}$/.test(value): the value is coerced to its text first
IsYyyymmdd(x) == Len(x.s) = 8 /\ AllDigits(x.s)

\* the Redis glob of SCAN MATCH: * matches any run of characters, the colon
\* included; every other character of the modelled patterns matches itself
RECURSIVE GlobMatch(_, _)
GlobMatch(pattern, key) ==
  IF pattern = "" THEN key = ""
  ELSE IF SubSeq(pattern, 1, 1) = "*"
    THEN GlobMatch(Tail(pattern), key)
         \/ (key # "" /\ GlobMatch(pattern, Tail(key)))
  ELSE /\ key # ""
       /\ SubSeq(key, 1, 1) = SubSeq(pattern, 1, 1)
       /\ GlobMatch(Tail(pattern), Tail(key))

-----------------------------------------------------------------------------
\* Cache keys and the params of an invalidation

\* `${value}` in a template literal; a Date object prints in its long local
\* form, which no key contains (s holds the instant's ISO text)
ToText(x) == IF x.t = "Date" THEN "Date " \o x.s ELSE x.s

RECURSIVE JoinColon(_)
JoinColon(parts) ==
  IF Len(parts) = 0 THEN ""
  ELSE IF Len(parts) = 1 THEN parts[1]
  ELSE parts[1] \o ":" \o JoinColon(Tail(parts))

\* every parameter rendered, the missing ones as "null" and "undefined"
cleanParamsOfAll(params) == [n \in 1..Len(params) |-> ToText(params[n])]

\* params.filter((p) => p != null).map((p) => String(p))
cleanParamsOf(params) ==
  LET kept == SelectSeq(params, LAMBDA p : p.t \notin {"null", "undefined"})
  IN [n \in 1..Len(kept) |-> ToText(kept[n])]

generateKey(entityType, operation, params) ==
  entityType \o ":" \o operation \o ":" \o JoinColon(cleanParamsOf(params))

\* no formatting call
NoEval == [fn |-> "none", args |-> <<>>, out |-> <<>>]

\* The keyspace of the model, in the key formats the manager's code documents:
\*   keikka:get:asiakasId:keikkaId
\*   keikka:list:asiakasId:personId:startDate:endDate
\*   entity:list:asiakasId, attachment:list:keikka:id, attachment:search:asiakasId:hash
\*   grid:personId:<id>:pumppuAika:<yyyymmdd>
KeyList ==
  << generateKey("keikka", "get", <<Num("1"), Num("1")>>),
     generateKey("keikka", "get", <<Num("1"), Num("2")>>),
     generateKey("keikka", "get", <<Num("2"), Num("1")>>),
     generateKey("keikka", "list",
                 <<Num("1"), Num("5"), Str("20250827"), Str("20250827")>>),
     generateKey("keikka", "list",
                 <<Num("1"), Num("5"), Str("20250801"), Str("20250831")>>),
     generateKey("keikkaPerson", "list", <<Num("1")>>),
     generateKey("attachment", "list", <<Str("keikka"), Num("1")>>),
     generateKey("grid", "personId",
                 <<Num("5"), Str("pumppuAika"), Str("20250827")>>),
     generateKey("auth", "permissions", <<Num("5")>>) >>

Keys == {KeyList[n] : n \in 1..Len(KeyList)}

\* keys of the tenant-scoped entities, entity:operation:asiakasId[:more]: of
\* tenant 1, of tenants 10 and 12, and of tenant 5 with a 1 further on
TenantKeyList ==
  << generateKey("asiakas", "get", <<Num("1")>>),
     generateKey("asiakas", "get", <<Num("10")>>),
     generateKey("asiakas", "list", <<Num("5"), Num("1")>>),
     generateKey("personpvm", "list", <<Num("1")>>),
     generateKey("personpvm", "list", <<Num("12"), Str("20250801"), Str("20250831")>>),
     generateKey("keikkaPerson", "list", <<Num("10")>>) >>

TenantKeys ==
  {TenantKeyList[n] : n \in 1..Len(TenantKeyList)}
    \cup {generateKey("keikkaPerson", "list", <<Num("1")>>)}

\* grid keys of a second handler and of the next day
GridKeyList ==
  << generateKey("grid", "personId", <<Num("5"), Str("pumppuAika"), Str("20250828")>>),
     generateKey("grid", "personId", <<Num("7"), Str("pumppuAika"), Str("20250827")>>),
     generateKey("grid", "personId", <<Num("7"), Str("pumppuAika"), Str("20250828")>>) >>

GridKeys ==
  {GridKeyList[n] : n \in 1..Len(GridKeyList)}
    \cup {generateKey("grid", "personId", <<Num("5"), Str("pumppuAika"), Str("20250827")>>),
          generateKey("keikka", "get", <<Num("1"), Num("1")>>)}

\* the whole keyspace, in the order SCAN walks it
AllKeyList == KeyList \o TenantKeyList \o GridKeyList

\* s.split(":")
RECURSIVE Split(_)
Split(s) ==
  IF s = "" THEN << "" >>
  ELSE LET rest == Split(Tail(s))
       IN IF SubSeq(s, 1, 1) = ":" THEN << "" >> \o rest
          ELSE << SubSeq(s, 1, 1) \o rest[1] >> \o Tail(rest)

NoBody ==
  [pumppuAika |-> Undefined, newDate |-> Undefined, personId |-> Undefined,
   creatorPersonId |-> Undefined, keikkaId |-> Undefined]

\* a params object; a missing body reads like a body without fields
\* (params.body?.x, params.body || {})
NoParams ==
  [asiakasId |-> Undefined, personId |-> Undefined, pumppuAika |-> Undefined,
   newDate |-> Undefined, date |-> Undefined, yyyymmdd |-> Undefined,
   keikkaId |-> Undefined, entityId |-> Undefined, entityType |-> Undefined,
   body |-> NoBody]

\* the dates a caller passes: an ISO timestamp, a yyyymmdd number, a Date
IsoStamp == Str("2025-08-27T06:00:00.000Z")

UntypedDates == {Num("20250827"), DateObj("2025-08-27T06:00:00.000Z")}

\* the params of the modelled invalidate calls: any of asiakasId, keikkaId,
\* personId and an ISO pumppuAika, or a pumppuAika that is no string
ParamsSet ==
  {[NoParams EXCEPT !.asiakasId = a, !.keikkaId = k, !.personId = h,
                    !.pumppuAika = d] :
     a \in {Undefined, Num("1")}, k \in {Undefined, Num("1")},
     h \in {Undefined, Num("5")}, d \in {Undefined, IsoStamp}}
  \cup {[NoParams EXCEPT !.pumppuAika = d] : d \in UntypedDates}

\* the day after IsoStamp
NextDayStamp == Str("2025-08-28T06:00:00.000Z")

\* the params a route passes for an order of the next day: the tenant, the
\* order and the request body with its pumppuAika
BodyParams ==
  [NoParams EXCEPT !.asiakasId = Num("1"), !.keikkaId = Num("1"),
                   !.body = [NoBody EXCEPT !.pumppuAika = NextDayStamp]]

\* the params of the modelled invalidateCrossEntity calls: the order and its
\* tenant, its handler and its date, both pairs, neither, a pumppuAika that
\* is no string, or the order with its request body
CrossParamsSet ==
  {p \in ParamsSet :
     /\ Truthy(p.keikkaId) <=> Truthy(p.asiakasId)
     /\ Truthy(p.personId) <=> (p.pumppuAika = IsoStamp)}
  \cup {BodyParams}

-----------------------------------------------------------------------------
\* The patterns an invalidation scans for.  A plan is [threw, groups]: threw
\* says that the call rejects with a TypeError; groups are run one after the
\* other, and the patterns of one group are invalidated side by side
\* (Promise.all of invalidateByPattern).

\* new Date(value) is a valid date: a Date object, or an ISO text
ParsesAsDate(x) ==
  \/ x.t = "Date"
  \/ x.t = "string" /\ Len(x.s) >= 10
       /\ SubSeq(x.s, 5, 5) = "-" /\ SubSeq(x.s, 8, 8) = "-"

\* yyyymmdd of the local calendar day, or null (printed "null" in a pattern);
\* the modelled instants lie on the calendar day their ISO text starts with
formatGridDate(dateInput) ==
  IF ~Truthy(dateInput) THEN "null"
  ELSE IF IsYyyymmdd(dateInput) THEN dateInput.s
  ELSE IF ParsesAsDate(dateInput) THEN StripDashes(Substring0(dateInput.s, 10))
  ELSE "null"

DigitList == <<"0", "1", "2", "3", "4", "5", "6", "7", "8", "9">>

DigitValue(ch) == CHOOSE n \in 0..9 : DigitList[n + 1] = ch

RECURSIVE LexLess(_, _)
LexLess(a, b) ==
  IF a = "" THEN FALSE
  ELSE IF SubSeq(a, 1, 1) # SubSeq(b, 1, 1)
    THEN DigitValue(SubSeq(a, 1, 1)) < DigitValue(SubSeq(b, 1, 1))
  ELSE LexLess(Tail(a), Tail(b))

\* a < b for two non-negative integers in decimal notation (the numbers of
\* the date formats do not fit 32-bit integers)
NumLess(a, b) == IF Len(a) # Len(b) THEN Len(a) < Len(b) ELSE LexLess(a, b)

\* getUTCFullYear() ... getUTCSeconds(), padded and concatenated; the modelled
\* date texts are UTC: YYYY-MM-DD or YYYY-MM-DDTHH:MM:SS.sssZ
UtcStamp(text) ==
  SubSeq(text, 1, 4) \o SubSeq(text, 6, 7) \o SubSeq(text, 9, 10)
    \o (IF Len(text) >= 19
          THEN SubSeq(text, 12, 13) \o SubSeq(text, 15, 16) \o SubSeq(text, 18, 19)
          ELSE "000000")

formatDateForRedis(dateInput) ==
  IF dateInput.t \in {"null", "undefined"} THEN "null"
  ELSE IF dateInput.t = "number" /\ NumLess("10000000000000", dateInput.s)
    THEN dateInput.s
  ELSE IF /\ dateInput.t = "number"
          /\ ~NumLess(dateInput.s, "20000101")
          /\ ~NumLess("99991231", dateInput.s)
    THEN dateInput.s \o "120000"      \* String(dateInput * 1000000 + 120000)
  ELSE IF dateInput.t = "string" /\ IsYyyymmdd(dateInput)
    THEN dateInput.s \o "120000"
  ELSE IF dateInput.t = "number" /\ dateInput.s = "0" THEN "0"
  ELSE IF dateInput.t \notin {"string", "Date"} THEN ToText(dateInput)
  ELSE IF ~ParsesAsDate(dateInput) THEN ToText(dateInput)
  ELSE UtcStamp(dateInput.s)

\* every individual key of the tenant, whatever the keikkaId
individualKeysPatternOfAll(asiakasId, keikkaIdValue) ==
  "keikka:get:" \o OrStar(asiakasId) \o ":*"

\* invalidate, case "keikka": the pattern of the individual keikka keys,
\* targeted when the keikkaId is known
individualKeysPatternOf(asiakasId, keikkaIdValue) ==
  IF Truthy(keikkaIdValue)
    THEN "keikka:get:" \o OrStar(asiakasId) \o ":" \o ToText(keikkaIdValue)
    ELSE "keikka:get:" \o OrStar(asiakasId) \o ":*"

\* invalidate, case "keikka"
keikkaPatterns(params) ==
  LET newDateValue == Or(params.body.newDate, params.newDate)
      pumppuAikaValue ==
        Or(Or(params.body.pumppuAika, params.pumppuAika), params.date)
      targetDate == Or(newDateValue, pumppuAikaValue)
      personIdValue == Or(params.body.personId, params.personId)
      yyyymmddValue == params.yyyymmdd
      keikkaIdValue ==
        Or(Or(params.body.keikkaId, params.keikkaId), params.entityId)
      individualKeysPattern ==
        individualKeysPatternOf(params.asiakasId, keikkaIdValue)
      yyyymmdd == StripDashes(Substring0(targetDate.s, 10))
  IN IF Truthy(yyyymmddValue)
       THEN [threw |-> FALSE,
             pats |-> << individualKeysPattern,
                         "keikka:list:*:*:" \o ToText(yyyymmddValue) \o ":*",
                         "keikka:list:*:*:*:" \o ToText(yyyymmddValue) >>]
     ELSE IF Truthy(targetDate)
       THEN IF targetDate.t # "string"
              \* targetDate.substring is not a function
              THEN [threw |-> TRUE, pats |-> <<>>]
              ELSE [threw |-> FALSE,
                    pats |-> << individualKeysPattern,
                                "keikka:list:*:*:" \o yyyymmdd \o ":*",
                                "keikka:list:*:*:*:" \o yyyymmdd >>]
     ELSE IF Truthy(personIdValue)
       THEN [threw |-> FALSE,
             pats |-> << individualKeysPattern,
                         "keikka:list:*:" \o ToText(personIdValue) \o ":*:*" >>]
     ELSE [threw |-> FALSE,
           pats |-> << individualKeysPattern, "keikka:list:*" >>]

\* invalidate, case "grid"
gridPattern(params) ==
  IF Truthy(params.personId) /\ Truthy(params.pumppuAika)
    THEN "grid:personId:" \o ToText(params.personId) \o ":pumppuAika:"
           \o formatGridDate(params.pumppuAika)
  ELSE IF Truthy(params.pumppuAika)
    THEN "grid:personId:*:pumppuAika:" \o formatGridDate(params.pumppuAika)
  ELSE IF Truthy(params.personId)
    THEN "grid:personId:" \o ToText(params.personId) \o ":pumppuAika:*"
  ELSE "grid:personId:*:pumppuAika:*"

\* invalidate, case "attachment"
attachmentPatterns(params) ==
  << "attachment:*:" \o OrStar(params.asiakasId) \o ":*",
     "attachment:listMissing:" \o OrStar(params.asiakasId),
     "attachment:types:" \o OrStar(params.asiakasId),
     "attachment:bulk:*:*",
     "attachment:list:*:*",
     "attachment:get:*" >>

RequiredDateTypes ==
  {"vehicleRequiredDateType", "personRequiredDateType",
   "tyomaaRequiredDateType", "asiakasRequiredDateType"}

\* invalidate(operation, entityType, params): the patterns of its one group
invalidatePatterns(entityType, params) ==
  CASE entityType = "keikka" -> keikkaPatterns(params)
    [] entityType = "asiakas" ->
         [threw |-> FALSE,
          pats |-> << "asiakas:*:" \o OrStar(params.asiakasId) \o "*" >>]
    [] entityType \in RequiredDateTypes ->
         [threw |-> FALSE,
          pats |-> << entityType \o ":*:" \o OrStar(params.asiakasId) >>]
    [] entityType = "stat" -> [threw |-> FALSE, pats |-> << "stat:*" >>]
    [] entityType = "grid" -> [threw |-> FALSE, pats |-> << gridPattern(params) >>]
    [] entityType = "attachment" ->
         [threw |-> FALSE, pats |-> attachmentPatterns(params)]
    [] entityType = "personpvm" ->
         [threw |-> FALSE,
          pats |-> << "personpvm:*:" \o OrStar(params.asiakasId) \o "*" >>]
    [] OTHER ->
         [threw |-> FALSE,
          pats |-> << entityType \o ":*:" \o OrStar(params.asiakasId) \o "*" >>]

\* invalidateGridSmart whose KEIKKA_UPDATE case looks at body.pumppuAika before
\* body.newDate
invalidateGridSmartPatternsSourceFirst(operation, body, params) ==
  LET gridParams(pumppuAika) ==
        [NoParams EXCEPT !.asiakasId = params.asiakasId, !.pumppuAika = pumppuAika]
  IN CASE operation = "KEIKKA_UPDATE" ->
            IF Truthy(body.pumppuAika) THEN << gridPattern(gridParams(body.pumppuAika)) >>
            ELSE IF Truthy(body.newDate)
              THEN << gridPattern(gridParams(body.newDate)) >>
            ELSE << gridPattern(gridParams(Undefined)) >>
       [] operation = "KEIKKA_COPY" ->
            IF Truthy(body.newDate) THEN << gridPattern(gridParams(body.newDate)) >>
            ELSE <<>>
       [] OTHER -> << gridPattern(gridParams(Undefined)) >>

\* invalidateGridSmart(operation, body, params): one invalidate of "grid"
\* with {asiakasId, pumppuAika}, or nothing
invalidateGridSmartPatterns(operation, body, params) ==
  LET gridParams(pumppuAika) ==
        [NoParams EXCEPT !.asiakasId = params.asiakasId, !.pumppuAika = pumppuAika]
  IN CASE operation = "KEIKKA_UPDATE" ->
            IF Truthy(body.newDate) THEN << gridPattern(gridParams(body.newDate)) >>
            ELSE IF Truthy(body.pumppuAika)
              THEN << gridPattern(gridParams(body.pumppuAika)) >>
            ELSE << gridPattern(gridParams(Undefined)) >>
       [] operation = "KEIKKA_COPY" ->
            IF Truthy(body.newDate) THEN << gridPattern(gridParams(body.newDate)) >>
            ELSE <<>>
       [] OTHER -> << gridPattern(gridParams(Undefined)) >>

KeikkaOperations == {"KEIKKA_UPDATE", "KEIKKA_DELETE", "KEIKKA_CREATE"}

\* invalidateCrossEntity(operation, params) for the keikka rules and for an
\* operation the switch does not list (default)
invalidateCrossEntityPlan(operation, params) ==
  LET keikka == invalidatePatterns("keikka", params)
      grid == invalidateGridSmartPatterns(operation, params.body, params)
  IN CASE operation \in KeikkaOperations ->
            \* one Promise.all; a rejected member rejects the call while the
            \* other members run on
            [threw |-> keikka.threw,
             groups |-> << keikka.pats
                           \o invalidatePatterns("keikkaPerson", params).pats
                           \o invalidatePatterns("keikkaBetoni", params).pats
                           \o invalidatePatterns("stepLog", params).pats
                           \o invalidatePatterns("attachment", params).pats
                           \o grid >>]
       [] operation = "KEIKKA_BULK_UPDATE" ->
            \* awaited one after the other; a throw ends the call
            IF keikka.threw
              THEN [threw |-> TRUE, groups |-> <<>>]
              ELSE [threw |-> FALSE,
                    groups |-> << keikka.pats, grid,
                                  invalidatePatterns("asiakas", params).pats >>]
       [] OTHER ->
            LET entityType == IF Truthy(params.entityType)
                                THEN ToText(params.entityType) ELSE "default"
                one == invalidatePatterns(entityType, params)
            IN [threw |-> one.threw,
                groups |-> IF one.threw THEN <<>> ELSE << one.pats >>]

\* the plan of a call of kind byPattern, invalidate or cross
PlanOf(kind, arg) ==
  CASE kind = "byPattern" -> [threw |-> FALSE, groups |-> << << arg.pattern >> >>]
    [] kind = "invalidate" ->
         LET one == invalidatePatterns(arg.entityType, arg.params)
         IN [threw |-> one.threw,
             groups |-> IF one.threw THEN <<>> ELSE << one.pats >>]
    [] kind = "cross" -> invalidateCrossEntityPlan(arg.operation, arg.params)

-----------------------------------------------------------------------------
\* Bounds and constants of the cache model

MaxKeys == 2         \* the server holds at most this many cache keys
BATCH_SIZE == 1      \* this.BATCH_SIZE, scaled to the keyspace: keys per DEL
NSlots == 2          \* cursor positions a full SCAN walks through
maxIterations == 1000

\* the cursor position SCAN finds a key at
SlotOf(key) == (CHOOSE n \in 1..Len(AllKeyList) : AllKeyList[n] = key) % NSlots

Range(seq) == {seq[n] : n \in 1..Len(seq)}

\* process.env as getClient reads it
Envs ==
  [REDIS_CACHE_ENABLED : {"unset", "true", "false"},
   NODE_ENV : {"production", "development"}]

CacheDisabled(env) ==
  \/ env.REDIS_CACHE_ENABLED = "false"
  \/ env.NODE_ENV = "production" /\ env.REDIS_CACHE_ENABLED # "true"

\* getClient calls in flight at once
NGetCalls == 3

GetCallers == 1..NGetCalls

\* what `await cache.getClient()` gave: the client object (numbered in the order
\* _createConnection made them) or null
NullClient == 0

\* a getClient call: where it stands, how it went (via) and what it returned
\* (p: the value of the promise it awaits)
IdleGet == [pc |-> "idle", via |-> "none", p |-> NullClient, ret |-> NullClient]

\* the manager after its constructor: this.client = null, this.isConnected =
\* false, this.isShuttingDown = false, this.connectionPromise = null; created
\* counts the runs of _createConnection, unlistened the clients whose event
\* listeners close() removed; close: where a close() call stands
NoConn == [client |-> NullClient, connectionPromise |-> NullClient,
           isConnected |-> FALSE, isShuttingDown |-> FALSE, created |-> 0,
           unlistened |-> 0, close |-> "idle",
           get |-> [c \in GetCallers |-> IdleGet]]

\* the state of the Redis server as a call finds it: answering, refusing the
\* connection, or connected but failing every command
Servers == {"up", "unreachable", "failing"}

\* a server that answers every command and whose SCAN never returns cursor
\* "0" (its keyspace keeps being rehashed under the iteration)
ScanServers == {"up", "endless"}

\* what getClient gives the call: a client ("ok", or "failing" when each of
\* its commands will reject), or null because the cache is disabled or because
\* no connection could be made
ClientOf(env, server) ==
  IF CacheDisabled(env) THEN "disabled"
  ELSE IF server = "unreachable" THEN "none"
  ELSE IF server = "failing" THEN "failing"
  ELSE IF server = "endless" THEN "endless"
  ELSE "ok"

\* getClient gave a client
HasClient(client) == client \in {"ok", "failing", "endless"}

\* the commands of the client are answered
Answers(client) == client \in {"ok", "endless"}

\* a SCAN whose first reply already carries cursor "0"
NextCursorDone(client, cursor) == 0

\* result[0] of a SCAN reply: the next cursor position, 0 after the last one
NextCursor(client, cursor) ==
  IF client = "endless" THEN 1 + (cursor % (NSlots - 1))
  ELSE (cursor + 1) % NSlots

NoArg == [operation |-> "", entityType |-> "", params |-> NoParams,
          pattern |-> "", key |-> ""]

\* A call of the manager.  pc: "scan" and "del" await the reply of a SCAN
\* round or of a DEL of task ti of the first group; "done" holds what the
\* call returned (ret, total).  pre, removed, fault, lapsed, sent record what
\* happened during the call: the keys at its start, the keys its DELs took
\* out, whether a store command failed, whether a key expired, whether the
\* store was contacted; ttl is the TTL cache() handed to SETEX and reply what
\* became of the one store command of a cache or get call, data what
\* redis.get returned.  Of an
\* invalidateByPattern call, failedAt is the cursor of the SCAN round that
\* rejected (-1: none), tried and okSize are the summed sizes of the batches
\* handed to DEL and of those whose DEL was answered.  recorded is the sum of
\* the keysInvalidated the call passed to cacheMetrics.recordInvalidation.
NoCall ==
  [kind |-> "none", arg |-> NoArg, client |-> "ok", pc |-> "done",
   groups |-> <<>>, ti |-> 0, cursor |-> 0, iterations |-> 0, found |-> <<>>,
   i |-> 0, total |-> 0, threw |-> FALSE, ret |-> "none",
   pre |-> {}, removed |-> {}, fault |-> FALSE, lapsed |-> FALSE, sent |-> FALSE,
   ttl |-> 0, failedAt |-> -1, tried |-> 0, okSize |-> 0, reply |-> "none",
   data |-> "none", recorded |-> 0]

NoPrev == [pattern |-> "", total |-> 0, had |-> FALSE, client |-> "ok",
           fault |-> FALSE, lapsed |-> FALSE]

-----------------------------------------------------------------------------
\* Bounds and input domains of the lock model

NCallers == 2   \* concurrent call chains (acquireLock, then release, release, ...)
MaxTime == 1    \* the clock stops here

Callers == 1..NCallers

Resources == {"R"}

\* ttlMs values the callers pass
TtlValues == {1, 2}

\* values of Math.random().toString(36).substring(2, 11)
RandomSuffixes == {"a", "b"}

\* process.pid of the process a call chain runs in: chains 1 and 2 share a
\* process, chain 3 runs in another one
Pid(c) == IF c <= 2 THEN 1 ELSE c - 1

\* the suffixes a chain draws from: tokens of different processes differ in
\* their pid whatever the suffix, so only chains that share their process with
\* another chain need more than one
RandomSuffixesOf(c) ==
  IF \E d \in Callers \ {c} : Pid(d) = Pid(c)
    THEN RandomSuffixes
    ELSE {CHOOSE r \in RandomSuffixes : TRUE}

\* this.lockPrefix
lockPrefix == "lock:"

\* `${this.lockPrefix}${resource}`
LockKey(resource) == <<lockPrefix, resource>>

LockKeys == {LockKey(r) : r \in Resources}

NoToken == [pid |-> 0, ts |-> 0, rnd |-> ""]

NoEntry == [val |-> NoToken, exp |-> 0]

\* `${processId}:${timestamp}:${random}`
generateLockValue(processId, timestamp, random) ==
  [pid |-> processId, ts |-> timestamp, rnd |-> random]

\* The lock manager is constructed with a CacheMetrics object (this.metrics).
\* What one call adds to this.metrics.locks:
NoMetric == [acquisitionAttempts |-> 0, acquisitionSuccesses |-> 0, acquisitionFailures |-> 0,
            releases |-> 0, releaseFailures |-> 0]

\* this.metrics of a new CacheMetrics: the invalidation counters and the lock
\* release counters; calls counts the record calls made so far
NoMetrics ==
  [invalidations |-> [totalCount |-> 0, totalKeys |-> 0, byPattern |-> <<>>],
   locks |-> [releases |-> 0, releaseFailures |-> 0, totalHoldDuration |-> 0,
              maxHoldDuration |-> 0],
   calls |-> 0, last |-> ""]

\* metrics.recordLockAcquisition(resource, acquired, durationMs)
recordLockAcquisition(acquired) ==
  [NoMetric EXCEPT !.acquisitionAttempts = 1,
                   !.acquisitionSuccesses = IF acquired THEN 1 ELSE 0,
                   !.acquisitionFailures = IF acquired THEN 0 ELSE 1]

\* metrics.recordLockRelease(lockKey, success, holdDurationMs)
recordLockRelease(success) ==
  [NoMetric EXCEPT !.releases = 1,
                   !.releaseFailures = IF success THEN 0 ELSE 1]

\* metrics.recordLockReleaseFailure(lockKey, holdDurationMs)
recordLockReleaseFailure == [NoMetric EXCEPT !.releaseFailures = 1]

IdleCall == [pc |-> "idle", resource |-> "R", ttlMs |-> 0,
             lockValue |-> NoToken, released |-> FALSE]

\* startEmpty: no lock entry when the call started; atStart: the calls in flight
\* on the resource when it started; removed: the entry was removed (expiry,
\* release) while it was in flight; sets: the callers that wrote the entry while
\* it was in flight; err: its SET rejected; present: the entry existed when its
\* SET reached the server; metric: what the call added to the lock metrics;
\* attempts: the SET commands the call has issued
NoAcq == [startEmpty |-> FALSE, atStart |-> {}, removed |-> FALSE, sets |-> {},
          err |-> FALSE, present |-> FALSE, metric |-> NoMetric, attempts |-> 0]

\* ret: what release() returned; otherHeld: an entry with a different token was
\* stored when the script ran; deleted: the call removed the entry; storeCall:
\* the call reached the store; err: its script was rejected; metric: what the
\* call added to the lock metrics
NoRel == [ret |-> "none", otherHeld |-> FALSE, deleted |-> FALSE, storeCall |-> FALSE,
          err |-> FALSE, metric |-> NoMetric]

RelSeen(store, key, lockValue, after, result, storeCall, err, metric) ==
  [ret |-> IF result THEN "true" ELSE "false",
   otherHeld |-> (storeCall /\ store[key] # NoEntry /\ store[key].val # lockValue),
   deleted |-> (after[key] # store[key]),
   storeCall |-> storeCall,
   err |-> err,
   metric |-> metric]

-----------------------------------------------------------------------------
\* The Redis commands the lock manager issues, as the server executes them
\* (each is atomic at the server).  A command returns the new store and the reply.

\* redis.set(lockKey, lockValue, "PX", ttlMs) with the "NX" dropped: an
\* unconditional SET
SetPxOverwrite(store, lockKey, lockValue, ttlMs, t) ==
  [store |-> [store EXCEPT ![lockKey] = [val |-> lockValue, exp |-> t + ttlMs]],
   reply |-> "OK"]

\* the expiry of a key stored without one (what the TTL command reports for it)
NoExpiry == -1

\* redis.set(lockKey, lockValue, "NX") with the "PX", ttlMs dropped: the entry
\* never expires
SetNxForever(store, lockKey, lockValue, ttlMs, t) ==
  IF store[lockKey] = NoEntry
    THEN [store |-> [store EXCEPT ![lockKey] = [val |-> lockValue, exp |-> NoExpiry]],
          reply |-> "OK"]
    ELSE [store |-> store, reply |-> "nil"]

\* a SET ... NX that answers nil for an existing key but restarts its expiry
SetPxNxRefreshing(store, lockKey, lockValue, ttlMs, t) ==
  IF store[lockKey] = NoEntry
    THEN [store |-> [store EXCEPT ![lockKey] = [val |-> lockValue, exp |-> t + ttlMs]],
          reply |-> "OK"]
    ELSE [store |-> [store EXCEPT ![lockKey].exp = t + ttlMs], reply |-> "nil"]

\* redis.set(lockKey, lockValue, "PX", ttlMs, "NX"): set if not exists, with expiry
SetPxNx(store, lockKey, lockValue, ttlMs, t) ==
  IF store[lockKey] = NoEntry
    THEN [store |-> [store EXCEPT ![lockKey] = [val |-> lockValue, exp |-> t + ttlMs]],
          reply |-> "OK"]
    ELSE [store |-> store, reply |-> "nil"]

\* the release script without its ownership check: a plain DEL
LuaDelOnly(store, lockKey, lockValue) ==
  IF store[lockKey] # NoEntry
    THEN [store |-> [store EXCEPT ![lockKey] = NoEntry], reply |-> 1]
    ELSE [store |-> store, reply |-> 0]

\* if redis.call("GET", KEYS[1]) == ARGV[1] then return redis.call("DEL", KEYS[1])
\* else return 0 end
LuaCheckAndDel(store, lockKey, lockValue) ==
  IF store[lockKey] # NoEntry /\ store[lockKey].val = lockValue
    THEN [store |-> [store EXCEPT ![lockKey] = NoEntry], reply |-> 1]
    ELSE [store |-> store, reply |-> 0]

\* the server drops every key whose expiry time has come
Expired(store, t) ==
  [k \in DOMAIN store |->
     IF store[k] # NoEntry /\ store[k].exp # NoExpiry /\ store[k].exp <= t
       THEN NoEntry ELSE store[k]]

-----------------------------------------------------------------------------
\* History kept for the calls in flight: an acquireLock call is in flight from
\* its start to the reply (or error) of its SET.

InFlight(d, resource) == lock[d].pc = "set" /\ lock[d].resource = resource

\* lock entries were removed (keys): mark the calls in flight on them
NoteRemoved(log, keys) ==
  [d \in Callers |->
     IF lock[d].pc = "set" /\ LockKey(lock[d].resource) \in keys
       THEN [log[d] EXCEPT !.removed = TRUE] ELSE log[d]]

\* caller c wrote lock:resource: mark the other calls in flight on it
NoteSet(log, c, resource) ==
  [d \in Callers |->
     IF d # c /\ InFlight(d, resource)
       THEN [log[d] EXCEPT !.sets = @ \cup {c}] ELSE log[d]]

-----------------------------------------------------------------------------
\* DistributedLockManager.acquireLock

\* no lock key is held and no caller has called yet
LockStart ==
  /\ now = 0
  /\ lockStore = [k \in LockKeys |-> NoEntry]
  /\ lock = [c \in Callers |-> IdleCall]
  /\ acqLog = [c \in Callers |-> NoAcq]
  /\ relLog = [c \in Callers |-> NoRel]

LockInit ==
  /\ LockStart
  /\ cacheStore = {}
  /\ call = NoCall
  /\ prev = NoPrev
  /\ eval = NoEval
  /\ conn = NoConn
  /\ metrics = NoMetrics

\* acquireLock up to the await of redis.set: the key and the owner token are built
AcquireLock(c, resource, ttlMs, random) ==
  /\ lock[c].pc = "idle"
  /\ lock' = [lock EXCEPT ![c] =
                [pc |-> "set", resource |-> resource, ttlMs |-> ttlMs,
                 lockValue |-> generateLockValue(Pid(c), now, random),
                 released |-> FALSE]]
  /\ acqLog' = [acqLog EXCEPT ![c] =
                  [NoAcq EXCEPT
                     !.attempts = 1,
                     !.startEmpty = (lockStore[LockKey(resource)] = NoEntry),
                     !.atStart = {e \in Callers \ {c} : InFlight(e, resource)}]]
  /\ UNCHANGED <<now, lockStore, relLog>>
  /\ UNCHANGED <<cacheVars, keyVars, connVars, metricVars>>

\* options.retryCount of the README's acquireLock(options): default 3
retryCount == 3

\* acquireLock with a retry loop round its SET: a "nil" reply sends the SET
\* again, retryCount times at most
AcquireSetRepliedRetries(c) ==
  /\ lock[c].pc = "set"
  /\ LET key == LockKey(lock[c].resource)
         r == SetPxNx(lockStore, key, lock[c].lockValue, lock[c].ttlMs, now)
         acquired == r.reply = "OK"
         again == ~acquired /\ acqLog[c].attempts <= retryCount
         log == [acqLog EXCEPT ![c].present = (lockStore[key] # NoEntry),
                               ![c].attempts = IF again THEN @ + 1 ELSE @,
                               ![c].metric = IF again THEN @
                                             ELSE recordLockAcquisition(acquired)]
     IN /\ lockStore' = r.store
        /\ lock' = [lock EXCEPT ![c] =
                      IF acquired
                        THEN [@ EXCEPT !.pc = "handle", !.ttlMs = 0]
                        ELSE IF again
                          THEN @
                          ELSE [@ EXCEPT !.pc = "null", !.ttlMs = 0,
                                         !.lockValue = NoToken]]
        /\ acqLog' = IF r.store # lockStore
                       THEN NoteSet(log, c, lock[c].resource) ELSE log
  /\ UNCHANGED <<now, relLog>>
  /\ UNCHANGED <<cacheVars, keyVars, connVars, metricVars>>

\* the SET is executed and answered: result === "OK" decides handle or null.
\* (Fields the code never reads again are reset: ttlMs, and the token of a
\* call that got no handle.)
AcquireSetReplied(c) ==
  /\ lock[c].pc = "set"
  /\ LET key == LockKey(lock[c].resource)
         r == SetPxNx(lockStore, key, lock[c].lockValue, lock[c].ttlMs, now)
         acquired == r.reply = "OK"
         log == [acqLog EXCEPT ![c].present = (lockStore[key] # NoEntry),
                               ![c].metric = recordLockAcquisition(acquired)]
     IN /\ lockStore' = r.store
        /\ lock' = [lock EXCEPT ![c] =
                      IF acquired
                        THEN [@ EXCEPT !.pc = "handle", !.ttlMs = 0]
                        ELSE [@ EXCEPT !.pc = "null", !.ttlMs = 0, !.lockValue = NoToken]]
        /\ acqLog' = IF r.store # lockStore
                       THEN NoteSet(log, c, lock[c].resource) ELSE log
  /\ UNCHANGED <<now, relLog>>
  /\ UNCHANGED <<cacheVars, keyVars, connVars, metricVars>>

\* acquireLock without its try/catch: a rejected redis.set rejects the call, and
\* nothing is recorded
AcquireSetFailedThrows(c, executed) ==
  /\ lock[c].pc = "set"
  /\ LET key == LockKey(lock[c].resource)
         r == SetPxNx(lockStore, key, lock[c].lockValue, lock[c].ttlMs, now)
         log == [acqLog EXCEPT ![c].err = TRUE,
                               ![c].present = (lockStore[key] # NoEntry)]
     IN /\ lockStore' = IF executed THEN r.store ELSE lockStore
        /\ lock' = [lock EXCEPT ![c] =
                      [@ EXCEPT !.pc = "threw", !.ttlMs = 0, !.lockValue = NoToken]]
        /\ acqLog' = IF executed /\ r.store # lockStore
                       THEN NoteSet(log, c, lock[c].resource) ELSE log
  /\ UNCHANGED <<now, relLog>>
  /\ UNCHANGED <<cacheVars, keyVars, connVars, metricVars>>

\* redis.set rejects (connection error, timeout): the catch returns null.  The
\* server may or may not have executed the command before the error (executed).
AcquireSetFailed(c, executed) ==
  /\ lock[c].pc = "set"
  /\ LET key == LockKey(lock[c].resource)
         r == SetPxNx(lockStore, key, lock[c].lockValue, lock[c].ttlMs, now)
         log == [acqLog EXCEPT ![c].err = TRUE,
                               ![c].present = (lockStore[key] # NoEntry),
                               ![c].metric = recordLockAcquisition(FALSE)]
     IN /\ lockStore' = IF executed THEN r.store ELSE lockStore
        /\ lock' = [lock EXCEPT ![c] =
                      [@ EXCEPT !.pc = "null", !.ttlMs = 0, !.lockValue = NoToken]]
        /\ acqLog' = IF executed /\ r.store # lockStore
                       THEN NoteSet(log, c, lock[c].resource) ELSE log
  /\ UNCHANGED <<now, relLog>>
  /\ UNCHANGED <<cacheVars, keyVars, connVars, metricVars>>

-----------------------------------------------------------------------------
\* DistributedLock.release

\* release() without its "if (this.released)" guard: every call runs the script
ReleaseUnguarded(c) ==
  /\ lock[c].pc = "handle"
  /\ lock' = [lock EXCEPT ![c].pc = "eval"]
  /\ UNCHANGED <<now, lockStore, acqLog, relLog>>
  /\ UNCHANGED <<cacheVars, keyVars, connVars, metricVars>>

\* release() up to the await of redis.eval; an already released handle returns
\* false at once
Release(c) ==
  /\ lock[c].pc = "handle"
  /\ IF lock[c].released
       THEN /\ relLog' = [relLog EXCEPT ![c] =
                            RelSeen(lockStore, LockKey(lock[c].resource),
                                    lock[c].lockValue, lockStore, FALSE, FALSE,
                                    FALSE, NoMetric)]
            /\ UNCHANGED lock
       ELSE /\ lock' = [lock EXCEPT ![c].pc = "eval"]
            /\ UNCHANGED relLog
  /\ UNCHANGED <<now, lockStore, acqLog>>
  /\ UNCHANGED <<cacheVars, keyVars, connVars, metricVars>>

\* the script is executed and answered: wasOwner = (result === 1); the handle
\* is marked released.  (The token of a released handle is never read again
\* and is reset.)
ReleaseEvalReplied(c) ==
  /\ lock[c].pc = "eval"
  /\ LET key == LockKey(lock[c].resource)
         r == LuaCheckAndDel(lockStore, key, lock[c].lockValue)
         wasOwner == r.reply = 1
     IN /\ lockStore' = r.store
        /\ lock' = [lock EXCEPT ![c] =
                      [@ EXCEPT !.pc = "handle", !.released = TRUE,
                                !.lockValue = NoToken]]
        /\ relLog' = [relLog EXCEPT ![c] =
                        RelSeen(lockStore, key, lock[c].lockValue, r.store,
                                wasOwner, TRUE, FALSE, recordLockRelease(wasOwner))]
        /\ acqLog' = IF r.store # lockStore
                       THEN NoteRemoved(acqLog, {key}) ELSE acqLog
  /\ UNCHANGED now
  /\ UNCHANGED <<cacheVars, keyVars, connVars, metricVars>>

\* the catch of release() without its "this.released = true"
ReleaseEvalFailedStaysHeld(c, executed) ==
  /\ lock[c].pc = "eval"
  /\ LET key == LockKey(lock[c].resource)
         r == LuaCheckAndDel(lockStore, key, lock[c].lockValue)
         after == IF executed THEN r.store ELSE lockStore
     IN /\ lockStore' = after
        /\ lock' = [lock EXCEPT ![c].pc = "handle"]
        /\ relLog' = [relLog EXCEPT ![c] =
                        RelSeen(lockStore, key, lock[c].lockValue, after,
                                FALSE, TRUE, TRUE, recordLockReleaseFailure)]
        /\ acqLog' = IF after # lockStore
                       THEN NoteRemoved(acqLog, {key}) ELSE acqLog
  /\ UNCHANGED now
  /\ UNCHANGED <<cacheVars, keyVars, connVars, metricVars>>

\* isHeld(): !this.released
isHeld(c) == ~lock[c].released

\* redis.eval rejects: the catch marks the handle released and returns false.
\* The server may or may not have run the script before the error (executed).
ReleaseEvalFailed(c, executed) ==
  /\ lock[c].pc = "eval"
  /\ LET key == LockKey(lock[c].resource)
         r == LuaCheckAndDel(lockStore, key, lock[c].lockValue)
         after == IF executed THEN r.store ELSE lockStore
     IN /\ lockStore' = after
        /\ lock' = [lock EXCEPT ![c] =
                      [@ EXCEPT !.pc = "handle", !.released = TRUE,
                                !.lockValue = NoToken]]
        /\ relLog' = [relLog EXCEPT ![c] =
                        RelSeen(lockStore, key, lock[c].lockValue, after,
                                FALSE, TRUE, TRUE, recordLockReleaseFailure)]
        /\ acqLog' = IF after # lockStore
                       THEN NoteRemoved(acqLog, {key}) ELSE acqLog
  /\ UNCHANGED now
  /\ UNCHANGED <<cacheVars, keyVars, connVars, metricVars>>

-----------------------------------------------------------------------------
\* Time passes by one millisecond; keys whose PX expiry has come are gone
Tick ==
  /\ now < MaxTime
  /\ now' = now + 1
  /\ lockStore' = Expired(lockStore, now + 1)
  /\ acqLog' = NoteRemoved(acqLog, {k \in LockKeys :
                                      lockStore[k] # Expired(lockStore, now + 1)[k]})
  /\ UNCHANGED <<lock, relLog>>
  /\ UNCHANGED <<cacheVars, keyVars, connVars, metricVars>>

LockNext ==
  \/ \E c \in Callers, resource \in Resources, ttlMs \in TtlValues :
       \E random \in RandomSuffixesOf(c) :
         AcquireLock(c, resource, ttlMs, random)
  \/ \E c \in Callers : AcquireSetReplied(c)
  \/ \E c \in Callers, executed \in BOOLEAN : AcquireSetFailed(c, executed)
  \/ \E c \in Callers : Release(c)
  \/ \E c \in Callers : ReleaseEvalReplied(c)
  \/ \E c \in Callers, executed \in BOOLEAN : ReleaseEvalFailed(c, executed)
  \/ Tick

LockSpec == LockInit /\ [][LockNext]_vars

-----------------------------------------------------------------------------
\* The lock manager with holders that never call release() (crash or omission),
\* over unbounded time.  The clock of the model stops at MaxTime, the server's
\* does not: past MaxTime the entries still expire, the soonest first, and a
\* call made then reads the clock's last value.

Expiries ==
  {lockStore[k].exp :
     k \in {j \in LockKeys : lockStore[j] # NoEntry /\ lockStore[j].exp # NoExpiry}}

TickBeyond ==
  /\ now = MaxTime
  /\ Expiries # {}
  /\ LET t == CHOOSE u \in Expiries : \A v \in Expiries : u <= v
     IN /\ lockStore' = Expired(lockStore, t)
        /\ acqLog' = NoteRemoved(acqLog, {k \in LockKeys :
                                            lockStore[k] # Expired(lockStore, t)[k]})
  /\ UNCHANGED <<now, lock, relLog>>
  /\ UNCHANGED <<cacheVars, keyVars, connVars, metricVars>>

LockLiveNext ==
  \/ \E c \in Callers, resource \in Resources, ttlMs \in TtlValues :
       \E random \in RandomSuffixesOf(c) :
         AcquireLock(c, resource, ttlMs, random)
  \/ \E c \in Callers : AcquireSetReplied(c)
  \/ \E c \in Callers, executed \in BOOLEAN : AcquireSetFailed(c, executed)
  \/ Tick
  \/ TickBeyond

\* time passes whatever the callers do; no caller is obliged to take a step
LockLiveSpec ==
  LockInit /\ [][LockLiveNext]_vars /\ WF_vars(Tick) /\ WF_vars(TickBeyond)

-----------------------------------------------------------------------------
\* UniversalCacheManager: how a call moves through its store commands
\*
\* The manager has one connection, and the server runs the commands in the
\* order they were issued.  The invalidateByPattern calls of one Promise.all
\* all issue their SCAN before the first reply is handled, so the SCANs of a
\* group run first, task by task, and the DELs after them, task by task.

EnterGroup(c) ==
  [c EXCEPT !.pc = "scan", !.ti = 1, !.cursor = 0, !.iterations = 0, !.i = 0,
            !.found = [n \in 1..Len(Head(c.groups)) |-> <<>>]]

\* the call returns: the summed count, or the rejection
Finish(c) ==
  [c EXCEPT !.pc = "done", !.ret = IF c.threw THEN "threw" ELSE "count",
            !.groups = <<>>, !.ti = 0, !.cursor = 0, !.iterations = 0,
            !.found = <<>>, !.i = 0]

\* the next store command of the call that matters.  Tasks that found no key
\* issue no DEL (keys.length > 0), and a finished group gives way to the next
\* one.  A SCAN for a pattern that matches none of the keys the store holds
\* finds nothing whether it succeeds or fails, and no key is added while a
\* call runs: the scan of such a task is passed over.
RECURSIVE Settle(_, _)
Settle(c, keys) ==
  IF c.groups = <<>> THEN Finish(c)
  ELSE IF c.pc = "scan"
    THEN IF c.ti > Len(Head(c.groups))
           THEN Settle([c EXCEPT !.pc = "del", !.ti = 1, !.i = 0], keys)
         ELSE IF \E k \in keys : GlobMatch(Head(c.groups)[c.ti], k) THEN c
         ELSE Settle([c EXCEPT !.ti = @ + 1], keys)
  ELSE IF c.ti > Len(Head(c.groups))
    THEN IF Tail(c.groups) = <<>> THEN Finish(c)
         ELSE Settle(EnterGroup([c EXCEPT !.groups = Tail(@)]), keys)
  ELSE IF c.i >= Len(c.found[c.ti])
    THEN Settle([c EXCEPT !.ti = @ + 1, !.i = 0], keys)
  ELSE c

\* the call starts.  Without a client every withRedis returns its fallback:
\* scanKeys gives [] and nothing is deleted.
Begin(kind, arg, client) ==
  LET plan == PlanOf(kind, arg)
      c == [NoCall EXCEPT !.kind = kind, !.arg = arg, !.client = client,
                          !.threw = plan.threw, !.pre = cacheStore,
                          !.groups = IF HasClient(client) THEN plan.groups ELSE <<>>]
  IN IF c.groups = <<>> THEN Finish(c) ELSE Settle(EnterGroup(c), cacheStore)

\* what the next call remembers of an invalidateByPattern call
Summary(c) ==
  IF c.kind = "byPattern"
    THEN [pattern |-> c.arg.pattern, total |-> c.total,
          had |-> \E k \in c.pre : GlobMatch(c.arg.pattern, k),
          client |-> c.client, fault |-> c.fault, lapsed |-> c.lapsed]
    ELSE NoPrev

\* the pattern and the keys of the task whose command is awaited
TaskPattern(c) == Head(c.groups)[c.ti]

\* SCAN cursor MATCH pattern: the matching keys at this cursor position, in
\* keyspace order
ScanReply(keys, cursor, pattern) ==
  SelectSeq(AllKeyList, LAMBDA k : k \in keys /\ SlotOf(k) = cursor
                                 /\ GlobMatch(pattern, k))

\* batch.length, for the record of an invalidateByPattern call
Sized(c, batch) == IF c.kind = "byPattern" THEN Len(batch) ELSE 0

\* the entity types whose case in invalidate's switch returns the result of
\* invalidateByPattern calls; every other type takes the scanKeys /
\* batchDelete code at the end of invalidate
ByPatternTypes == {"keikka", "stat", "attachment"}

\* the task runs inside invalidateByPattern, which passes its deletedCount to
\* recordInvalidation.  (invalidateCrossEntity reaches the store through
\* invalidate(operation, entityType, params), and a pattern starts with its
\* entity type.)
ViaByPattern(c) ==
  \/ c.kind = "byPattern"
  \/ Split(TaskPattern(c))[1] \in ByPatternTypes

\* what a counted batch adds to the keysInvalidated of recordInvalidation
Recorded(c, batch) == IF ViaByPattern(c) THEN Len(batch) ELSE 0

\* a slice that holds no key
BatchEmpty(c) == <<>>

\* keys.slice(i, i + batchSize)
Batch(c) == SubSeq(c.found[c.ti], c.i + 1, Min(c.i + BATCH_SIZE, Len(c.found[c.ti])))

-----------------------------------------------------------------------------
\* UniversalCacheManager: the calls and the store's replies

Patterns == {"keikka:get:1:*", "keikka:list:*", "attachment:*"}

EntityTypes == {"keikka"}

\* (the switch has no case for ASIAKAS_PERSON_SETTING_UPDATE)
CrossOperations ==
  {"KEIKKA_UPDATE", "KEIKKA_BULK_UPDATE", "ASIAKAS_PERSON_SETTING_UPDATE"}

CacheInit ==
  /\ LockStart
  /\ cacheStore \in {S \in SUBSET Keys : Cardinality(S) <= MaxKeys}
  /\ call = NoCall
  /\ prev = NoPrev
  /\ eval = NoEval
  /\ conn = NoConn
  /\ metrics = NoMetrics

\* withRedis(operation, fallback) of a call that touches the store once, with
\* no try / catch around the operation: its failure reaches the caller
withRedisRethrows(client, failed, result, fallback) ==
  IF ~HasClient(client) THEN fallback
  ELSE IF failed THEN "threw"
  ELSE result

\* withRedis(operation, fallback): the fallback without a client and when the
\* operation throws, else the operation's result
withRedis(client, failed, result, fallback) ==
  IF ~HasClient(client) THEN fallback
  ELSE IF failed THEN fallback
  ELSE result

\* the text stored under a key: what JSON.stringify wrote, or a text that
\* JSON.parse rejects (cut short, or written by another program)
StoredKinds == {"json", "malformed"}

\* the data is returned as it is, never parsed
getResultUnparsed(data) ==
  [failed |-> FALSE, result |-> IF data = "absent" THEN "null" ELSE "hit"]

\* if (data) return JSON.parse(data); return null: the value (a hit), null,
\* or the SyntaxError of JSON.parse
getResult(data) ==
  [failed |-> data = "malformed",
   result |-> IF data = "absent" THEN "null" ELSE "hit"]

\* get(key): redis.get and JSON.parse under withRedis with fallback null; ok
\* says whether the command was answered
Get(key, stored, env, server, ok) ==
  /\ call = NoCall
  /\ LET client == ClientOf(env, server)
         reply == IF ~HasClient(client) THEN "none"
                  ELSE IF client = "failing" \/ ~ok THEN "rejected"
                  ELSE "ok"
         data == IF reply # "ok" THEN "none"
                 ELSE IF key \in cacheStore THEN stored ELSE "absent"
         got == getResult(data)
     IN call' = [NoCall EXCEPT
                   !.kind = "get", !.arg.key = key, !.client = client,
                   !.pre = cacheStore, !.sent = HasClient(client),
                   !.reply = reply, !.data = data,
                   !.fault = (HasClient(client) /\ (reply # "ok" \/ got.failed)),
                   !.ret = withRedis(client, reply # "ok" \/ got.failed,
                                     got.result, "null")]
  /\ prev' = NoPrev
  /\ UNCHANGED <<cacheStore, lockVars, keyVars, connVars, metricVars>>

\* this.TTL[entityType] || this.TTL.default, in seconds, for the entity types
\* the model caches
TTL(entityType) ==
  CASE entityType = "keikka" -> 3600
    [] entityType = "attachment" -> 600
    [] entityType = "holiday" -> 86400
    [] entityType = "ecofleet" -> 60
    [] OTHER -> 900

\* Math.random() in thousandths: the least value, and one next to 1
Randoms == {0, 999}

\* baseTtl + Math.floor(baseTtl * 0.05 * (Math.random() * 2 - 1))
cacheTtl(entityType, random) ==
  LET baseTtl == TTL(entityType)
      jitter == (baseTtl * 5 * (random * 2 - 1000)) \div 100000
  IN baseTtl + jitter

\* the entity types of the modelled cache calls; "unknownType" has no entry
\* in this.TTL
CacheEntityTypes == {"keikka", "ecofleet", "unknownType"}

\* the data handed to cache: JSON.stringify returns its text, or throws (a
\* circular structure, a BigInt)
DataKinds == {"json", "circular"}

\* how the server treats a command of a client that works: it executes it and
\* replies, it does not execute it and the command rejects, or it executes
\* it and the reply is lost (the command rejects)
Outcomes == {"ok", "rejected", "lost"}

\* cache(key, data, entityType): redis.setex(key, ttl, JSON.stringify(data))
\* under withRedis with fallback false
Cache(key, data, entityType, random, env, server, outcome) ==
  /\ call = NoCall
  /\ key \in cacheStore \/ Cardinality(cacheStore) < MaxKeys
  /\ LET client == ClientOf(env, server)
         sent == HasClient(client) /\ data = "json"
         reply == IF ~sent THEN "none"
                  ELSE IF client = "failing" THEN "rejected"
                  ELSE outcome
     IN /\ call' = [NoCall EXCEPT
                      !.kind = "cache", !.arg.key = key,
                      !.arg.entityType = entityType, !.client = client,
                      !.pre = cacheStore, !.sent = sent,
                      !.ttl = IF sent THEN cacheTtl(entityType, random) ELSE 0,
                      !.reply = reply,
                      !.fault = (HasClient(client) /\ reply # "ok"),
                      !.ret = withRedis(client, reply # "ok", "true", "false")]
        /\ cacheStore' = IF reply \in {"ok", "lost"}
                           THEN cacheStore \cup {key} ELSE cacheStore
  /\ prev' = NoPrev
  /\ UNCHANGED <<lockVars, keyVars, connVars, metricVars>>

InvalidateByPattern(pattern, env, server) ==
  /\ call = NoCall
  /\ call' = Begin("byPattern", [NoArg EXCEPT !.pattern = pattern],
                   ClientOf(env, server))
  /\ prev' = NoPrev
  /\ UNCHANGED <<cacheStore, lockVars, keyVars, connVars, metricVars>>

Invalidate(operation, entityType, params, env, server) ==
  /\ call = NoCall
  /\ call' = Begin("invalidate",
                   [NoArg EXCEPT !.operation = operation,
                                 !.entityType = entityType, !.params = params],
                   ClientOf(env, server))
  /\ prev' = NoPrev
  /\ UNCHANGED <<cacheStore, lockVars, keyVars, connVars, metricVars>>

InvalidateCrossEntity(operation, params, env, server) ==
  /\ call = NoCall
  /\ call' = Begin("cross",
                   [NoArg EXCEPT !.operation = operation, !.params = params],
                   ClientOf(env, server))
  /\ prev' = NoPrev
  /\ UNCHANGED <<cacheStore, lockVars, keyVars, connVars, metricVars>>

\* invalidateByPattern is called a second time in a row, with the pattern of
\* the call that has just returned
InvalidateByPatternAgain(env, server) ==
  /\ call.pc = "done"
  /\ call.kind = "byPattern"
  /\ call' = Begin("byPattern", call.arg, ClientOf(env, server))
  /\ prev' = Summary(call)
  /\ UNCHANGED <<cacheStore, lockVars, keyVars, connVars, metricVars>>

\* the caller has taken the result of the call; the manager is idle
Return ==
  /\ call.pc = "done"
  /\ call # NoCall
  /\ call' = NoCall
  /\ prev' = NoPrev
  /\ UNCHANGED <<cacheStore, lockVars, keyVars, connVars, metricVars>>

\* a SCAN round is answered: cursor = result[0], keys.push(...result[1]); the
\* loop ends at cursor "0" or past maxIterations
ScanReplied ==
  /\ call.pc = "scan"
  /\ Answers(call.client)
  /\ LET reply == ScanReply(cacheStore, call.cursor, TaskPattern(call))
         cursor == NextCursor(call.client, call.cursor)
         iterations == call.iterations + 1
         c == [call EXCEPT !.found[call.ti] = @ \o reply, !.sent = TRUE]
     IN call' = IF iterations > maxIterations \/ cursor = 0
                  THEN Settle([c EXCEPT !.ti = @ + 1, !.cursor = 0,
                                        !.iterations = 0], cacheStore)
                  ELSE [c EXCEPT !.cursor = cursor, !.iterations = iterations]
  /\ UNCHANGED <<cacheStore, prev, lockVars, keyVars, connVars, metricVars>>

\* a SCAN round rejects: the loop breaks with the keys found so far
ScanFailed ==
  /\ call.pc = "scan"
  /\ call' = Settle([call EXCEPT !.ti = @ + 1, !.cursor = 0, !.iterations = 0,
                                 !.sent = TRUE, !.fault = TRUE,
                                 !.failedAt = IF call.kind = "byPattern"
                                                THEN call.cursor ELSE @],
                     cacheStore)
  /\ UNCHANGED <<cacheStore, prev, lockVars, keyVars, connVars, metricVars>>

\* redis.del(...batch) is answered: deletedCount += batch.length
DelReplied ==
  /\ call.pc = "del"
  /\ Answers(call.client)
  /\ LET batch == Batch(call)
     IN /\ cacheStore' = cacheStore \ Range(batch)
        /\ call' = Settle([call EXCEPT
                             !.i = @ + BATCH_SIZE,
                             !.total = @ + Len(batch),
                             !.recorded = @ + Recorded(call, batch),
                             !.tried = @ + Sized(call, batch),
                             !.okSize = @ + Sized(call, batch),
                             !.removed = @ \cup (Range(batch) \cap cacheStore)],
                           cacheStore \ Range(batch))
  /\ UNCHANGED <<prev, lockVars, keyVars, connVars, metricVars>>

\* redis.del rejects and the loop over the batches is left
DelFailedAborts(executed) ==
  /\ call.pc = "del"
  /\ LET batch == IF executed THEN Range(Batch(call)) ELSE {}
     IN /\ cacheStore' = cacheStore \ batch
        /\ call' = Settle([call EXCEPT
                             !.i = Len(call.found[call.ti]), !.fault = TRUE,
                             !.tried = @ + Sized(call, Batch(call)),
                             !.removed = @ \cup (batch \cap cacheStore)],
                           cacheStore \ batch)
  /\ UNCHANGED <<prev, lockVars, keyVars, connVars, metricVars>>

\* redis.del rejects: the batch is not counted and the loop continues.  The
\* server may or may not have executed the command before the error.
DelFailed(executed) ==
  /\ call.pc = "del"
  /\ LET batch == IF executed THEN Range(Batch(call)) ELSE {}
     IN /\ cacheStore' = cacheStore \ batch
        /\ call' = Settle([call EXCEPT
                             !.i = @ + BATCH_SIZE, !.fault = TRUE,
                             !.tried = @ + Sized(call, Batch(call)),
                             !.removed = @ \cup (batch \cap cacheStore)],
                           cacheStore \ batch)
  /\ UNCHANGED <<prev, lockVars, keyVars, connVars, metricVars>>

\* the TTL of a key runs out while a call is in progress (between calls an
\* expiry only leaves a store that CacheInit starts from as well)
Expire(key) ==
  /\ call.pc # "done"
  /\ key \in cacheStore
  /\ cacheStore' = cacheStore \ {key}
  /\ call' = [call EXCEPT !.lapsed = TRUE]
  /\ UNCHANGED <<prev, lockVars, keyVars, connVars, metricVars>>

\* invalidate(operation, entityType, {asiakasId}) for the tenant-scoped rules
\* (asiakas, personpvm, and keikkaPerson for the default rule) over a store of
\* tenant keys
TenantEntityTypes == {"asiakas", "personpvm", "keikkaPerson"}

TenantParamsSet ==
  {[NoParams EXCEPT !.asiakasId = a] : a \in {Undefined, Num("1")}}

TenantInit ==
  /\ LockStart
  /\ cacheStore \in {S \in SUBSET TenantKeys : Cardinality(S) <= MaxKeys}
  /\ call = NoCall
  /\ prev = NoPrev
  /\ eval = NoEval
  /\ conn = NoConn
  /\ metrics = NoMetrics

TenantNext ==
  \/ /\ call = NoCall
     /\ \E entityType \in TenantEntityTypes, params \in TenantParamsSet,
           env \in Envs, server \in Servers :
          Invalidate("UPDATE", entityType, params, env, server)
  \/ Return
  \/ ScanReplied
  \/ ScanFailed
  \/ DelReplied
  \/ \E executed \in BOOLEAN : DelFailed(executed)
  \/ \E key \in TenantKeys : Expire(key)

TenantSpec == TenantInit /\ [][TenantNext]_vars

\* invalidateCrossEntity for an order that is updated, or copied or moved to
\* the next day (body.newDate), over a store of grid keys of both days
GridOperations == {"KEIKKA_UPDATE", "KEIKKA_CREATE"}

GridParamsSet ==
  {[NoParams EXCEPT !.asiakasId = Num("1"), !.keikkaId = Num("1"),
                    !.body = [NoBody EXCEPT !.pumppuAika = d, !.newDate = n]] :
     d \in {Undefined, IsoStamp}, n \in {Undefined, NextDayStamp}}

GridInit ==
  /\ LockStart
  /\ cacheStore \in {S \in SUBSET GridKeys : Cardinality(S) <= MaxKeys}
  /\ call = NoCall
  /\ prev = NoPrev
  /\ eval = NoEval
  /\ conn = NoConn
  /\ metrics = NoMetrics

GridNext ==
  \/ /\ call = NoCall
     /\ \E operation \in GridOperations, params \in GridParamsSet,
           env \in Envs, server \in Servers :
          InvalidateCrossEntity(operation, params, env, server)
  \/ Return
  \/ ScanReplied
  \/ ScanFailed
  \/ DelReplied
  \/ \E executed \in BOOLEAN : DelFailed(executed)
  \/ \E key \in GridKeys : Expire(key)

GridSpec == GridInit /\ [][GridNext]_vars

CacheNext ==
  \/ /\ call = NoCall
     /\ \E key \in Keys, stored \in StoredKinds, env \in Envs,
           server \in Servers, ok \in BOOLEAN :
          Get(key, stored, env, server, ok)
  \/ /\ call = NoCall
     /\ \E key \in Keys, data \in DataKinds, entityType \in CacheEntityTypes,
           random \in Randoms, env \in Envs, server \in Servers,
           outcome \in Outcomes :
          Cache(key, data, entityType, random, env, server, outcome)
  \/ /\ call = NoCall
     /\ \E pattern \in Patterns, env \in Envs, server \in Servers :
          InvalidateByPattern(pattern, env, server)
  \/ /\ call = NoCall
     /\ \E entityType \in EntityTypes, params \in ParamsSet, env \in Envs,
           server \in Servers :
          Invalidate("UPDATE", entityType, params, env, server)
  \/ /\ call = NoCall
     /\ \E operation \in CrossOperations, params \in CrossParamsSet,
           env \in Envs, server \in Servers :
          InvalidateCrossEntity(operation, params, env, server)
  \/ \E env \in Envs, server \in Servers :
       InvalidateByPatternAgain(env, server)
  \/ Return
  \/ ScanReplied
  \/ ScanFailed
  \/ DelReplied
  \/ \E executed \in BOOLEAN : DelFailed(executed)
  \/ \E key \in Keys : Expire(key)

CacheSpec == CacheInit /\ [][CacheNext]_vars

-----------------------------------------------------------------------------
\* UniversalCacheManager: invalidateByPattern against a server that holds at
\* most one cache key and may never end a SCAN iteration; every command is
\* answered

ScanInit ==
  /\ LockStart
  /\ cacheStore \in {{}} \cup {{k} : k \in Keys}
  /\ call = NoCall
  /\ prev = NoPrev
  /\ eval = NoEval
  /\ conn = NoConn
  /\ metrics = NoMetrics

ScanNext ==
  \/ /\ call = NoCall
     /\ \E pattern \in Patterns, env \in Envs, server \in ScanServers :
          InvalidateByPattern(pattern, env, server)
  \/ Return
  \/ ScanReplied
  \/ DelReplied

ScanSpec == ScanInit /\ [][ScanNext]_vars

-----------------------------------------------------------------------------
\* UniversalCacheManager: key and date formatting.  eval.args are the
\* arguments of the calls to make, one after the other; eval.out are the
\* results of the calls made so far.

MaxParams == 2     \* generateKey is called with at most this many params

\* one instant each: as epoch milliseconds, as ISO text, and its calendar day
\* as a yyyymmdd number
SameDays ==
  { [ms |-> Num("1756274400000"), iso |-> IsoStamp, ymd |-> Num("20250827")],
    [ms |-> Num("1756252800000"), iso |-> Str("2025-08-27"),
     ymd |-> Num("20250827")],
    [ms |-> Num("946684800000"), iso |-> Str("2000-01-01T00:00:00.000Z"),
     ymd |-> Num("20000101")] }

\* further arguments of formatDateForRedis
DateInputs ==
  { Null, Undefined, Num("0"), Num("20250827120000"), Str("20250827"),
    Str("tomorrow"), DateObj("2025-08-27T06:00:00.000Z") }

DateEvals ==
  { [fn |-> "formatDateForRedis", args |-> <<d.ms, d.iso, d.ymd>>, out |-> <<>>] :
      d \in SameDays }
  \cup { [fn |-> "formatDateForRedis", args |-> <<d>>, out |-> <<>>] :
           d \in DateInputs }

\* the values of a key parameter
ParamValues == {Null, Undefined, Num("1"), Num("5")}

ParamLists(n) == [1..n -> ParamValues]

KeyFamilies == { <<"keikka", "get">>, <<"keikka", "list">> }

\* two generateKey calls for one entityType and operation with the same
\* number of params
KeyEvals ==
  { [fn |-> "generateKey",
     args |-> << [entityType |-> f[1], operation |-> f[2], params |-> a],
                 [entityType |-> f[1], operation |-> f[2], params |-> b] >>,
     out |-> <<>>] :
      f \in KeyFamilies,
      a \in UNION {ParamLists(n) : n \in 0..MaxParams},
      b \in UNION {ParamLists(n) : n \in 0..MaxParams} }

KeyInit ==
  /\ LockStart
  /\ cacheStore = {}
  /\ call = NoCall
  /\ prev = NoPrev
  /\ conn = NoConn
  /\ metrics = NoMetrics
  /\ eval \in DateEvals \cup {e \in KeyEvals :
                                  Len(e.args[1].params) = Len(e.args[2].params)}

FormatDateForRedis ==
  /\ eval.fn = "formatDateForRedis"
  /\ Len(eval.out) < Len(eval.args)
  /\ eval' = [eval EXCEPT
                !.out = Append(@, formatDateForRedis(eval.args[Len(eval.out) + 1]))]
  /\ UNCHANGED <<lockVars, cacheVars, connVars, metricVars>>

GenerateKey ==
  /\ eval.fn = "generateKey"
  /\ Len(eval.out) < Len(eval.args)
  /\ LET a == eval.args[Len(eval.out) + 1]
     IN eval' = [eval EXCEPT
                   !.out = Append(@, generateKey(a.entityType, a.operation,
                                                 a.params))]
  /\ UNCHANGED <<lockVars, cacheVars, connVars, metricVars>>

KeyNext == FormatDateForRedis \/ GenerateKey

KeySpec == KeyInit /\ [][KeyNext]_vars

-----------------------------------------------------------------------------
\* Claims about the lock manager (checked under LockSpec)

\* the acquireLock call of c has returned
AcqDone(c) == lock[c].pc \notin {"idle", "set"}

\* the acquireLock call of c returned a handle
Acquired(c) == lock[c].pc \in {"handle", "eval"}

\* c holds the lock now: its handle is unreleased and its token is the stored one
Holds(c) ==
  /\ lock[c].pc \in {"handle", "eval"}
  /\ ~lock[c].released
  /\ lockStore[LockKey(lock[c].resource)] # NoEntry
  /\ lockStore[LockKey(lock[c].resource)].val = lock[c].lockValue

\* the two calls overlapped in time on one resource: one was in flight when the
\* other started
Concurrent(c, d) ==
  /\ c # d
  /\ lock[c].resource = lock[d].resource
  /\ (d \in acqLog[c].atStart \/ c \in acqLog[d].atStart)

\* C1: lock fencing on release.  A release() whose script finds lock:R holding a
\* value different from the handle's own token (the key expired and another
\* acquisition succeeded) returns false and does not delete that entry.
C1_ReleaseFencing ==
  \A c \in Callers :
    relLog[c].otherHeld => (relLog[c].ret = "false" /\ ~relLog[c].deleted)

\* C1 witness: the first handle's release() reached the store while another
\* token was stored, and the second holder still holds the lock afterwards.
C1_Witness ==
  \E c, d \in Callers :
    /\ c # d
    /\ relLog[c].storeCall /\ relLog[c].otherHeld /\ relLog[c].ret = "false"
    /\ lock[c].released
    /\ Holds(d)

\* C2 as stated: of two concurrent acquireLock(R) calls that both started with
\* no lock:R entry, exactly one returned a handle, in every interleaving.
C2_ExactlyOneOfTwo ==
  \A c, d \in Callers :
    (/\ Concurrent(c, d) /\ AcqDone(c) /\ AcqDone(d)
     /\ acqLog[c].startEmpty /\ acqLog[d].startEmpty)
    => (Acquired(c) # Acquired(d))

\* the call of c met no store error and no removal of the entry, and only c or
\* d wrote the entry while it was in flight
Undisturbed(c, d) ==
  /\ ~acqLog[c].err
  /\ ~acqLog[c].removed
  /\ acqLog[c].sets \subseteq {c, d}

\* C2 amended: of two concurrent acquireLock(R) calls that both started with no
\* lock:R entry, exactly one returns a handle and the other null, provided
\* neither SET fails with a store error, no lock:R entry is removed (TTL expiry
\* or release) while either call is in flight, and no third caller writes lock:R
\* meanwhile.
C2_ExactlyOneUndisturbed ==
  \A c, d \in Callers :
    (/\ Concurrent(c, d) /\ AcqDone(c) /\ AcqDone(d)
     /\ acqLog[c].startEmpty /\ acqLog[d].startEmpty
     /\ Undisturbed(c, d) /\ Undisturbed(d, c))
    => (Acquired(c) # Acquired(d))

\* C2 witness: two concurrent undisturbed calls, one got the handle, the other null.
C2_Witness ==
  \E c, d \in Callers :
    /\ Concurrent(c, d) /\ AcqDone(c) /\ AcqDone(d)
    /\ acqLog[c].startEmpty /\ acqLog[d].startEmpty
    /\ Undisturbed(c, d) /\ Undisturbed(d, c)
    /\ Acquired(c) /\ lock[d].pc = "null"

\* C3: while lock:R holds an entry (from the SET that returned a handle until a
\* release deletes it or its TTL expires), every acquireLock(R) whose SET reaches
\* the store returns null, also when issued by the holder's own process.
C3_HeldLockRefusesAcquire ==
  \A c \in Callers :
    (AcqDone(c) /\ acqLog[c].present) => ~Acquired(c)

\* C3 witness: a caller of the holder's own process was answered null by the
\* store while the holder still holds the lock.
C3_Witness ==
  \E c, d \in Callers :
    /\ c # d /\ Pid(c) = Pid(d)
    /\ Holds(d)
    /\ lock[c].pc = "null" /\ acqLog[c].present /\ ~acqLog[c].err

-----------------------------------------------------------------------------
\* Claims about the cache manager (checked under CacheSpec)

\* the segments of a key, split at its colons
RECURSIVE SplitColon(_, _)
SplitColon(text, segment) ==
  IF text = "" THEN << segment >>
  ELSE IF Head(text) = ":" THEN << segment >> \o SplitColon(Tail(text), "")
  ELSE SplitColon(Tail(text), segment \o SubSeq(text, 1, 1))

Segments(key) == SplitColon(key, "")

\* keikka:get:asiakasId:keikkaId
IndividualKeys ==
  {k \in Keys : Segments(k)[1] = "keikka" /\ Segments(k)[2] = "get"}

\* keikka:list:asiakasId:personId:startDate:endDate
ListKeys ==
  {k \in Keys : Segments(k)[1] = "keikka" /\ Segments(k)[2] = "list"}

Invalidations == {"byPattern", "invalidate", "cross"}

\* the call of one of the given kinds has returned
Returned(kinds) == call.pc = "done" /\ call.kind \in kinds

\* C4: with the cache disabled by configuration, get(key) returns null and
\* cache(key, value) returns true, and neither contacts the store.
C4_DisabledCache ==
  (Returned({"get", "cache"}) /\ call.client = "disabled") =>
     /\ ~call.sent
     /\ call.kind = "get" => call.ret = "null"
     /\ call.kind = "cache" => call.ret = "true"

\* invalidateByPattern(P) has returned for the second time in a row, and the
\* store held a key matching P when the first call started
TwiceInARow ==
  /\ Returned({"byPattern"})
  /\ prev.pattern = call.arg.pattern
  /\ prev.had

C6_NeverRejects ==
  Returned({"invalidate", "cross"}) => call.ret # "threw"

\* C7: with the store unavailable (no client, or every command failing) each
\* invalidation call resolves to 0 and deletes nothing.
C7_UnavailableIsNoOp ==
  (Returned(Invalidations) /\ call.client \in {"none", "failing"}) =>
     (call.ret = "count" /\ call.total = 0 /\ call.removed = {})

\* invalidate(op, "keikka", params) with a keikkaId in the params
TargetedAt(K) ==
  /\ call.kind = "invalidate"
  /\ call.arg.entityType = "keikka"
  /\ call.arg.params.keikkaId = K

\* C8: invalidate(op, "keikka", {keikkaId: K}) deletes no individual key of
\* another order: each such key is not among the keys the call removed, and
\* is still stored unless its TTL ran out.
C8_TargetedInvalidation ==
  \A k \in IndividualKeys \cap call.pre :
    (TargetedAt(Num("1")) /\ Segments(k)[4] # "1") =>
       /\ k \notin call.removed
       /\ ~call.lapsed => k \in cacheStore

C8_Witness ==
  /\ Returned({"invalidate"})
  /\ TargetedAt(Num("1"))
  /\ \E k \in call.removed : k \in IndividualKeys /\ Segments(k)[4] = "1"
  /\ \E k \in IndividualKeys \cap call.pre :
       Segments(k)[4] # "1" /\ k \in cacheStore

\* C9: invalidateCrossEntity("KEIKKA_UPDATE", {keikkaId, asiakasId}) returns
\* the number of keys the call removed from the store (no other client writes
\* or deletes, and the store answers every command of the call).
C9_FanOutCount ==
  ( /\ Returned({"cross"})
    /\ call.arg.operation = "KEIKKA_UPDATE"
    /\ call.arg.params =
         [NoParams EXCEPT !.keikkaId = Num("1"), !.asiakasId = Num("1")]
    /\ call.client = "ok" /\ ~call.fault /\ call.ret = "count" ) =>
     call.total = Cardinality(call.removed)

\* C10: a KEIKKA_UPDATE whose params carry the order's date and its handler
\* (personId) deletes the keikka:list entries of that date and those of that
\* handler (the store answering every command).
C10_DateAndHandlerLists ==
  ( /\ Returned({"cross"})
    /\ call.arg.operation = "KEIKKA_UPDATE"
    /\ call.arg.params.pumppuAika = IsoStamp
    /\ call.arg.params.personId = Num("5")
    /\ call.client = "ok" /\ ~call.fault /\ call.ret = "count" ) =>
     \A k \in ListKeys \cap call.pre :
        ( \/ "20250827" \in {Segments(k)[5], Segments(k)[6]}
          \/ Segments(k)[4] = "5" ) => k \notin cacheStore

\* C11: a cross-entity operation that invalidates the schedule grid and has
\* the affected date in params.body.pumppuAika deletes grid keys of that date
\* only: every grid key its DELs removed matches
\* grid:personId:*:pumppuAika:<date>.
C11_GridDateOnly ==
  (/\ call.kind = "cross"
   /\ call.pc = "done"
   /\ Truthy(call.arg.params.body.pumppuAika))
    => \A k \in call.removed :
         GlobMatch("grid:*", k)
           => GlobMatch("grid:personId:*:pumppuAika:"
                          \o formatGridDate(call.arg.params.body.pumppuAika), k)

DefaultTtlMultiplier == 4   \* the documented global TTL multiplier
MaxTtl == 604800            \* the documented ceiling: 7 days in seconds

\* C12: the TTL that cache() passes to the store is positive, at most the
\* 7-day ceiling, and within 5% of base around base * multiplier, where base
\* is the entity type's base TTL: the lower bound is base * (multiplier -
\* 0.05), the upper bound base * (multiplier + 0.05).
C12_TtlBounds ==
  (call.kind = "cache" /\ call.sent)
    => /\ 0 < call.ttl
       /\ call.ttl <= MaxTtl
       /\ \E entityType \in CacheEntityTypes :
            LET base == TTL(entityType)
            IN /\ base * (DefaultTtlMultiplier * 100 - 5) <= call.ttl * 100
               /\ call.ttl * 100 <= base * (DefaultTtlMultiplier * 100 + 5)

\* C13: formatDateForRedis applied to an epoch-milliseconds timestamp, to an
\* ISO string and to a YYYYMMDD integer that denote the same calendar day
\* returns three strings with the same YYYYMMDD prefix (their first eight
\* characters).
C13_SameDayPrefix ==
  (eval.fn = "formatDateForRedis" /\ Len(eval.out) = 3)
    => /\ Substring0(eval.out[1], 8) = Substring0(eval.out[2], 8)
       /\ Substring0(eval.out[2], 8) = Substring0(eval.out[3], 8)

\* C14: null and undefined parameters are omitted from the key generateKey
\* builds, not rendered as the text "null" or "undefined": after entityType
\* and operation the key's segments are the texts of the parameters that are
\* given, in their order (one empty segment when none is given).
C14_NullParamsOmitted ==
  eval.fn = "generateKey" =>
    \A n \in 1..Len(eval.out) :
      LET a == eval.args[n]
          given == SelectSeq(a.params, LAMBDA q : q # Null /\ q # Undefined)
          texts == [i \in 1..Len(given) |-> given[i].s]
          segments == Segments(eval.out[n])
      IN /\ segments = <<a.entityType, a.operation>>
                          \o (IF given = <<>> THEN <<"">> ELSE texts)
         /\ \A i \in 1..Len(segments) : segments[i] \notin {"null", "undefined"}

C14_Witness ==
  /\ eval.fn = "generateKey"
  /\ Len(eval.out) = 2
  /\ eval.args[1].params = <<Null, Num("5")>>
  /\ eval.args[2].params = <<Num("5"), Undefined>>
  /\ eval.out = <<"keikka:list:5", "keikka:list:5">>

\* C15: for a fixed entityType and operation and a fixed number of
\* parameters, every key generateKey produces has the same number of
\* colon-separated segments, whichever of the parameters are null or
\* undefined.
C15_FixedSegmentArity ==
  (eval.fn = "generateKey" /\ Len(eval.out) = 2)
    => Len(Segments(eval.out[1])) = Len(Segments(eval.out[2]))

\* C16: for one pattern scanKeys issues at most maxIterations SCAN rounds,
\* even if the store never returns cursor "0": while a round is awaited,
\* fewer than maxIterations rounds have been answered before it.
C16_ScanCap ==
  call.pc = "scan" => call.iterations < maxIterations

\* C17: when a single SCAN round fails, scanning continues with the
\* remaining rounds: the keys that the rounds after the failed one return are
\* still collected and deleted (every DEL of the call being answered and no
\* key expiring meanwhile).
C17_ScanFailureSkipped ==
  ( /\ call.kind = "byPattern" /\ call.pc = "done"
    /\ call.client = "ok" /\ call.failedAt >= 0
    /\ call.tried = call.okSize /\ ~call.lapsed ) =>
    \A k \in call.pre :
      (GlobMatch(call.arg.pattern, k) /\ SlotOf(k) > call.failedAt)
        => k \in call.removed

\* C18: if the delete of one batch fails, batchDelete still attempts every
\* later batch, and the count it returns is the total size of exactly those
\* batches whose delete succeeded: when the scan collected every matching
\* key, all of them were handed to a DEL, and the count is the summed size
\* of the answered DELs.
C18_BatchDeleteContinues ==
  ( /\ call.kind = "byPattern" /\ call.pc = "done"
    /\ call.client = "ok" /\ call.failedAt = -1 /\ ~call.lapsed ) =>
    /\ call.tried
         = Cardinality({k \in call.pre : GlobMatch(call.arg.pattern, k)})
    /\ call.total = call.okSize
    /\ call.ret = "count"

\* the first of two batches failed and the second was deleted and counted
C18_Witness ==
  /\ call.kind = "byPattern" /\ call.pc = "done" /\ call.client = "ok"
  /\ call.failedAt = -1 /\ ~call.lapsed /\ call.fault
  /\ call.tried = 2 /\ call.total = 1
  /\ call.pre = {KeyList[1], KeyList[2]}
  /\ cacheStore = {KeyList[2]}

\* C19 as stated: cache never throws; whenever the write to the store fails
\* or no client is available it resolves to false and the store is left
\* without the new value.
C19_FailedWriteLeavesNoValue ==
  Returned({"cache"}) =>
    /\ call.ret \in {"true", "false"}
    /\ (call.client # "ok" \/ call.reply # "ok")
         => (call.ret = "false" /\ cacheStore = call.pre)

\* C19 amended: cache never throws; whenever the write to the store fails
\* or no client is available it resolves to false, and the store is left
\* without the new value unless the server had executed the write before
\* the command failed.
C19_FailedWriteResolvesFalse ==
  Returned({"cache"}) =>
    /\ call.ret \in {"true", "false"}
    /\ (call.client # "ok" \/ call.reply # "ok")
         => /\ call.ret = "false"
            /\ call.reply # "lost" => cacheStore = call.pre

\* a write that the server rejected, and one whose data cannot be serialised
C19_Witness ==
  /\ Returned({"cache"})
  /\ call.client = "ok" /\ call.ret = "false"
  /\ call.reply = "rejected" \/ (call.reply = "none" /\ ~call.sent)
  /\ call.arg.key \notin cacheStore

\* C20: get never throws: it resolves to null when the key is absent, when
\* the read from the store fails, and when the stored text cannot be
\* deserialised.
C20_GetNeverThrows ==
  Returned({"get"}) =>
    /\ call.ret \in {"hit", "null"}
    /\ ( \/ call.arg.key \notin call.pre
         \/ call.client # "ok"
         \/ call.reply = "rejected"
         \/ call.data = "malformed" ) => call.ret = "null"

\* the key is cached and the text under it is no JSON
C20_Witness ==
  /\ Returned({"get"})
  /\ call.client = "ok" /\ call.arg.key \in cacheStore
  /\ call.reply = "ok" /\ call.data = "malformed" /\ call.ret = "null"


-----------------------------------------------------------------------------
\* UniversalCacheManager.getClient and the shared connection.  A call runs
\* without interruption from one await to the next; no close() is called
\* (isShuttingDown stays false).

ClientInit ==
  /\ LockStart
  /\ cacheStore = {}
  /\ call = NoCall
  /\ prev = NoPrev
  /\ eval = NoEval
  /\ conn = NoConn
  /\ metrics = NoMetrics

\* the end of getClient once this.client is set: ping the client when it is
\* not known to be connected, else return it
PingOrReturn(get, client, isConnected) ==
  IF ~isConnected /\ client # NullClient
    THEN [get EXCEPT !.pc = "awaitPing"]
    ELSE [get EXCEPT !.pc = "done", !.ret = client]

\* getClient without its "if (this.connectionPromise)" guard
GetClientUnguarded(c, env) ==
  /\ conn.get[c].pc = "idle"
  /\ IF CacheDisabled(env)
       THEN conn' = [conn EXCEPT !.get[c] = [@ EXCEPT !.pc = "done", !.via = "disabled"]]
     ELSE IF conn.isShuttingDown
       THEN conn' = [conn EXCEPT !.get[c] = [@ EXCEPT !.pc = "done", !.via = "shutdown"]]
     ELSE IF conn.client = NullClient
       THEN conn' = [conn EXCEPT
                       !.created = @ + 1,
                       !.connectionPromise = conn.created + 1,
                       !.get[c] = [@ EXCEPT !.pc = "awaitCreate", !.via = "create",
                                            !.p = conn.created + 1]]
     ELSE conn' = [conn EXCEPT
                     !.get[c] = PingOrReturn([@ EXCEPT !.via = "existing"],
                                             conn.client, conn.isConnected)]
  /\ UNCHANGED <<lockVars, cacheVars, keyVars, metricVars>>

\* getClient from its start to its first await (or its return)
GetClient(c, env) ==
  /\ conn.get[c].pc = "idle"
  /\ IF CacheDisabled(env)
       THEN conn' = [conn EXCEPT !.get[c] = [@ EXCEPT !.pc = "done", !.via = "disabled"]]
     ELSE IF conn.connectionPromise # NullClient
       THEN conn' = [conn EXCEPT
                       !.get[c] = [@ EXCEPT !.pc = "awaitShared", !.via = "shared",
                                            !.p = conn.connectionPromise]]
     ELSE IF conn.isShuttingDown
       THEN conn' = [conn EXCEPT !.get[c] = [@ EXCEPT !.pc = "done", !.via = "shutdown"]]
     ELSE IF conn.client = NullClient
       THEN \* this.connectionPromise = this._createConnection()
            conn' = [conn EXCEPT
                       !.created = @ + 1,
                       !.connectionPromise = conn.created + 1,
                       !.get[c] = [@ EXCEPT !.pc = "awaitCreate", !.via = "create",
                                            !.p = conn.created + 1]]
     ELSE conn' = [conn EXCEPT
                     !.get[c] = PingOrReturn([@ EXCEPT !.via = "existing"],
                                             conn.client, conn.isConnected)]
  /\ UNCHANGED <<lockVars, cacheVars, keyVars, metricVars>>

\* this.client = await this.connectionPromise; this.connectionPromise = null
ConnectionCreated(c) ==
  /\ conn.get[c].pc = "awaitCreate"
  /\ conn' = [conn EXCEPT
                !.client = conn.get[c].p,
                !.connectionPromise = NullClient,
                !.get[c] = PingOrReturn(@, conn.get[c].p, conn.isConnected)]
  /\ UNCHANGED <<lockVars, cacheVars, keyVars, metricVars>>

\* return await this.connectionPromise
ConnectionShared(c) ==
  /\ conn.get[c].pc = "awaitShared"
  /\ conn' = [conn EXCEPT !.get[c] = [@ EXCEPT !.pc = "done", !.ret = conn.get[c].p]]
  /\ UNCHANGED <<lockVars, cacheVars, keyVars, metricVars>>

\* Promise.race([pingPromise, timeoutPromise]): the ping is answered (this.client)
\* or it rejects or the 2000 ms pass (null)
PingSettled(c, answered) ==
  /\ conn.get[c].pc = "awaitPing"
  /\ conn' = [conn EXCEPT
                !.get[c] = [@ EXCEPT !.pc = "done",
                                     !.ret = IF answered THEN conn.client ELSE NullClient]]
  /\ UNCHANGED <<lockVars, cacheVars, keyVars, metricVars>>

\* the client's "ready" event
OnReady ==
  /\ conn.created > conn.unlistened /\ ~conn.isConnected
  /\ conn' = [conn EXCEPT !.isConnected = TRUE]
  /\ UNCHANGED <<lockVars, cacheVars, keyVars, metricVars>>

\* the client's "error", "close" or "end" event
OnClose ==
  /\ conn.created > conn.unlistened /\ conn.isConnected
  /\ conn' = [conn EXCEPT !.isConnected = FALSE]
  /\ UNCHANGED <<lockVars, cacheVars, keyVars, metricVars>>

ClientNext ==
  \/ \E c \in GetCallers, env \in Envs : GetClient(c, env)
  \/ \E c \in GetCallers : ConnectionCreated(c)
  \/ \E c \in GetCallers : ConnectionShared(c)
  \/ \E c \in GetCallers, answered \in BOOLEAN : PingSettled(c, answered)
  \/ OnReady
  \/ OnClose

ClientSpec == ClientInit /\ [][ClientNext]_vars

\* close() from its start to its await: this.isShuttingDown = true, and with a
\* client its listeners are removed and quit() is sent; without one the call
\* returns
Close ==
  /\ conn.close # "awaitQuit"
  /\ conn' = IF conn.client # NullClient
               THEN [conn EXCEPT !.isShuttingDown = TRUE, !.unlistened = @ + 1,
                                 !.close = "awaitQuit"]
               ELSE [conn EXCEPT !.isShuttingDown = TRUE, !.close = "done"]
  /\ UNCHANGED <<lockVars, cacheVars, keyVars, metricVars>>

\* quit() resolved, or it rejected and disconnect() ran: the finally block
QuitSettled ==
  /\ conn.close = "awaitQuit"
  /\ conn' = [conn EXCEPT !.client = NullClient, !.isConnected = FALSE,
                          !.connectionPromise = NullClient,
                          !.isShuttingDown = FALSE, !.close = "done"]
  /\ UNCHANGED <<lockVars, cacheVars, keyVars, metricVars>>

\* getClient calls, the client's events and close() calls in any order
CloseNext ==
  \/ ClientNext
  \/ Close
  \/ QuitSettled

CloseSpec == ClientInit /\ [][CloseNext]_vars

-----------------------------------------------------------------------------
\* CacheMetrics: the invalidation counters and the lock release counters, under
\* any sequence of record calls.  (The per-entity-type counters, the durations
\* of invalidations and lastUsed are left out.)

PatternCeiling == 2   \* the 100 of recordInvalidation, scaled to MetricPatterns
MaxRecords == 4       \* record calls made in one run

\* the patterns the invalidations are recorded under
MetricPatterns == Patterns \cup {"stat:*", "auth:*"}

\* keysInvalidated of the recorded invalidations
KeysInvalidated == {0, 2}

\* holdDurationMs of the recorded releases
HoldDurations == {1, 3}

MetricsInit ==
  /\ LockStart
  /\ cacheStore = {}
  /\ call = NoCall
  /\ prev = NoPrev
  /\ eval = NoEval
  /\ conn = NoConn
  /\ metrics = NoMetrics

\* Object.keys(this.metrics.invalidations.byPattern)
Tracked(inv) == DOMAIN inv.byPattern

\* the byPattern entry of pattern after one more invalidation of it
Counted(inv, pattern, keysInvalidated) ==
  LET old == IF pattern \in Tracked(inv) THEN inv.byPattern[pattern]
             ELSE [count |-> 0, totalKeys |-> 0]
  IN (pattern :> [count |-> old.count + 1,
                  totalKeys |-> old.totalKeys + keysInvalidated]) @@ inv.byPattern

\* recordInvalidation without its "length < 100" test
recordInvalidationUncapped(inv, pattern, keysInvalidated) ==
  [totalCount |-> inv.totalCount + 1,
   totalKeys |-> inv.totalKeys + keysInvalidated,
   byPattern |-> Counted(inv, pattern, keysInvalidated)]

\* recordInvalidation(entityType, pattern, keysInvalidated) on
\* this.metrics.invalidations
recordInvalidation(inv, pattern, keysInvalidated) ==
  [totalCount |-> inv.totalCount + 1,
   totalKeys |-> inv.totalKeys + keysInvalidated,
   byPattern |-> IF Cardinality(Tracked(inv)) < PatternCeiling
                   THEN Counted(inv, pattern, keysInvalidated)
                   ELSE inv.byPattern]

RecordInvalidation(pattern, keysInvalidated) ==
  /\ metrics.calls < MaxRecords
  /\ metrics' = [metrics EXCEPT
                   !.invalidations = recordInvalidation(@, pattern, keysInvalidated),
                   !.calls = @ + 1,
                   !.last = pattern]
  /\ UNCHANGED <<lockVars, cacheVars, keyVars, connVars>>

\* release() after its script was answered: recordLockRelease(lockKey, wasOwner,
\* holdDuration)
RecordLockRelease(success, holdDurationMs) ==
  /\ metrics.calls < MaxRecords
  /\ LET d == recordLockRelease(success)
         l == metrics.locks
     IN metrics' = [metrics EXCEPT
                      !.locks = [releases |-> l.releases + d.releases,
                                 releaseFailures |-> l.releaseFailures + d.releaseFailures,
                                 totalHoldDuration |-> l.totalHoldDuration + holdDurationMs,
                                 maxHoldDuration |->
                                   IF holdDurationMs > l.maxHoldDuration
                                     THEN holdDurationMs ELSE l.maxHoldDuration],
                      !.calls = @ + 1,
                      !.last = "release"]
  /\ UNCHANGED <<lockVars, cacheVars, keyVars, connVars>>

\* release() after its script was rejected: recordLockReleaseFailure(lockKey,
\* holdDuration)
RecordLockReleaseFailure(holdDurationMs) ==
  /\ metrics.calls < MaxRecords
  /\ LET d == recordLockReleaseFailure
         l == metrics.locks
     IN metrics' = [metrics EXCEPT
                      !.locks = [releases |-> l.releases + d.releases,
                                 releaseFailures |-> l.releaseFailures + d.releaseFailures,
                                 totalHoldDuration |-> l.totalHoldDuration + holdDurationMs,
                                 maxHoldDuration |-> l.maxHoldDuration],
                      !.calls = @ + 1,
                      !.last = "releaseFailure"]
  /\ UNCHANGED <<lockVars, cacheVars, keyVars, connVars>>

MetricsNext ==
  \/ \E pattern \in MetricPatterns, keysInvalidated \in KeysInvalidated :
       RecordInvalidation(pattern, keysInvalidated)
  \/ \E success \in BOOLEAN, holdDurationMs \in HoldDurations :
       RecordLockRelease(success, holdDurationMs)
  \/ \E holdDurationMs \in HoldDurations : RecordLockReleaseFailure(holdDurationMs)

MetricsSpec == MetricsInit /\ [][MetricsNext]_vars

-----------------------------------------------------------------------------
\* Claims on the lock manager's calls (LockSpec)

\* C21: a release() on a handle already released returns false, issues no
\* operation against the store and leaves the store as it is, whoever holds the
\* lock entry at that time.
C21_SecondReleaseIsLocalNoOp ==
  [][\A c \in Callers :
       lock[c].released =>
         /\ lock'[c].pc # "eval"
         /\ relLog'[c] # relLog[c] =>
              /\ relLog'[c].ret = "false"
              /\ ~relLog'[c].storeCall
              /\ lockStore' = lockStore]_vars

\* a released handle was released again while another caller held the entry
C21_Witness ==
  \E c \in Callers, d \in Callers :
    /\ c # d
    /\ lock[c].released
    /\ relLog[c].ret = "false" /\ ~relLog[c].storeCall
    /\ lock[d].pc = "handle" /\ ~lock[d].released
    /\ lockStore[LockKey(lock[c].resource)].val = lock[d].lockValue

\* C22: acquireLock never rejects; a call whose SET failed returned null, made
\* no handle and was recorded in the metrics as a failed acquisition.
C22_AcquireNeverThrows ==
  \A c \in Callers :
    /\ lock[c].pc \in {"idle", "set", "handle", "null", "eval"}
    /\ acqLog[c].err =>
         /\ lock[c].pc = "null"
         /\ lock[c].lockValue = NoToken
         /\ acqLog[c].metric.acquisitionAttempts = 1
         /\ acqLog[c].metric.acquisitionFailures = 1
         /\ acqLog[c].metric.acquisitionSuccesses = 0

\* a SET failed after the server had executed it: the entry is stored and the
\* call returned null
C22_Witness ==
  \E c \in Callers :
    /\ acqLog[c].err /\ ~acqLog[c].present
    /\ lock[c].pc = "null"
    /\ lockStore[LockKey(lock[c].resource)] # NoEntry
    /\ \A d \in Callers : lock[d].pc \notin {"handle", "eval"}

\* C23: a release() whose script was rejected returned false, recorded a release
\* failure in the metrics and left the handle released (isHeld() false); the
\* handle is never again waiting for the script (a later release() that called
\* the store would be).
C23_FailedReleaseMarksReleased ==
  \A c \in Callers :
    relLog[c].err =>
      /\ relLog[c].ret = "false"
      /\ relLog[c].metric.releaseFailures = 1
      /\ relLog[c].metric.releases = 0
      /\ ~isHeld(c)
      /\ lock[c].pc = "handle"

\* the script was rejected after the server had run it: the entry is gone and
\* release() returned false
C23_Witness ==
  \E c \in Callers :
    /\ relLog[c].err /\ relLog[c].deleted
    /\ relLog[c].ret = "false"
    /\ ~isHeld(c)

\* C24: no lock entry stays forever: with holders that never release, every
\* stored lock:R entry is eventually gone (the TTL removes it), and an
\* acquireLock whose SET then finds no entry gets the lock.
C24_NoLockHeldForever ==
  /\ \A k \in LockKeys : (lockStore[k] # NoEntry) ~> (lockStore[k] = NoEntry)
  /\ [](\A c \in Callers :
          (lock[c].pc \in {"handle", "null"} /\ ~acqLog[c].err /\ ~acqLog[c].present)
            => lock[c].pc = "handle")

\* a holder never released its handle, its entry expired, and a later
\* acquireLock of another caller got the lock
C24_Witness ==
  \E c \in Callers, d \in Callers :
    /\ c # d
    /\ lock[c].pc = "handle" /\ isHeld(c) /\ relLog[c] = NoRel
    /\ lock[d].pc = "handle" /\ isHeld(d)
    /\ ~acqLog[d].startEmpty
    /\ lockStore[LockKey(lock[d].resource)].val = lock[d].lockValue

C26_RetriesWhenContended ==
  \A c \in Callers :
    (lock[c].pc = "null" /\ acqLog[c].present /\ ~acqLog[c].err)
      => acqLog[c].attempts = 1 + retryCount

\* C27: getClient calls made before a client exists share one connection
\* attempt: _createConnection has run at most once, and the callers that got a
\* client got the same one.
C27_SingleConnectionAttempt ==
  /\ conn.created <= 1
  /\ \A c \in GetCallers, d \in GetCallers :
       (/\ conn.get[c].pc = "done" /\ conn.get[c].ret # NullClient
        /\ conn.get[d].pc = "done" /\ conn.get[d].ret # NullClient)
       => conn.get[c].ret = conn.get[d].ret

\* a call that found the connection being made waited for it and returned the
\* client the first call returned
C27_Witness ==
  \E c \in GetCallers, d \in GetCallers :
    /\ conn.get[c].pc = "done" /\ conn.get[c].via = "create"
    /\ conn.get[d].pc = "done" /\ conn.get[d].via = "shared"
    /\ conn.get[c].ret # NullClient
    /\ conn.get[c].ret = conn.get[d].ret

\* C28: a store command that is never answered does not keep its call waiting:
\* every acquireLock waiting for its SET eventually returns (null when the
\* store stays silent), whatever the store does, as long as time passes.
C28_StoreCallsComplete ==
  \A c \in Callers : (lock[c].pc = "set") ~> (lock[c].pc \in {"handle", "null"})

\* C29: invalidateCrossEntity with an ASIAKAS_PERSON_SETTING_* operation for a
\* person deletes that person's auth:* keys (the store answering every
\* command, no key expiring meanwhile).
C29_RoleChangeClearsAuth ==
  ( /\ Returned({"cross"})
    /\ call.arg.operation = "ASIAKAS_PERSON_SETTING_UPDATE"
    /\ Truthy(call.arg.params.personId)
    /\ call.client = "ok" /\ ~call.fault /\ ~call.lapsed /\ call.ret = "count" ) =>
    \A k \in call.pre :
      GlobMatch("auth:*:" \o ToText(call.arg.params.personId) \o "*", k)
        => k \notin cacheStore

\* C30: an ecofleet entry is never written with a TTL longer than its fixed
\* 60-second window (its base TTL), whatever the jitter.
C30_EcofleetTtlFixed ==
  (call.kind = "cache" /\ call.sent /\ call.arg.entityType = "ecofleet")
    => call.ttl <= TTL("ecofleet")

-----------------------------------------------------------------------------
\* Claims on the metrics (MetricsSpec)

\* C31: whatever recordInvalidation calls were made, the number of distinct
\* patterns in metrics.invalidations.byPattern is at most the ceiling.
C31_BoundedPatterns ==
  Cardinality(Tracked(metrics.invalidations)) <= PatternCeiling

\* the ceiling was reached and a further, untracked pattern was recorded
C31_Witness ==
  /\ Cardinality(Tracked(metrics.invalidations)) = PatternCeiling
  /\ metrics.last \in MetricPatterns \ Tracked(metrics.invalidations)

\* C36: a recordInvalidation call for a pattern that is already tracked
\* increments that pattern's count and adds its keys to the pattern's
\* totalKeys, also once the ceiling is reached.
C36_TrackedStillCounted ==
  [][\A p \in Tracked(metrics.invalidations) :
       (/\ metrics'.invalidations.totalCount = metrics.invalidations.totalCount + 1
        /\ metrics'.last = p)
       => LET old == metrics.invalidations.byPattern[p]
              new == metrics'.invalidations.byPattern[p]
          IN /\ new.count = old.count + 1
             /\ new.totalKeys = old.totalKeys
                  + (metrics'.invalidations.totalKeys - metrics.invalidations.totalKeys)]_vars

\* C37: the lock metrics' average hold duration is never above their maximum:
\* totalHoldDuration <= releases * maxHoldDuration.
C37_AverageHoldWithinMax ==
  metrics.locks.totalHoldDuration
    <= metrics.locks.releases * metrics.locks.maxHoldDuration

-----------------------------------------------------------------------------
\* Further claims on the lock manager's calls (LockSpec)

\* C39: an acquireLock call that returns null because the resource is held
\* leaves the stored token of its lock key and the key's expiry as they were
\* (and every other lock key too).
C39_ContendedAttemptLeavesLock ==
  [][\A c \in Callers :
       (/\ lock[c].pc = "set" /\ lock'[c].pc = "null"
        /\ acqLog'[c].present /\ ~acqLog'[c].err)
       => lockStore' = lockStore]_vars

\* a call returned null on a held lock whose holder's entry is still stored
\* with time left
C39_Witness ==
  \E c \in Callers, d \in Callers :
    /\ c # d
    /\ lock[c].pc = "null" /\ acqLog[c].present /\ ~acqLog[c].err
    /\ Holds(d)
    /\ lock[c].resource = lock[d].resource
    /\ lockStore[LockKey(lock[d].resource)].exp > now

-----------------------------------------------------------------------------
\* Claims on close() (CloseSpec)

\* C38: once close() has completed the manager is not in the shutting-down
\* state (so that a later getClient is not turned away), whether or not a
\* client existed or a connection attempt was in flight when close() was called.
C38_CloseLeavesManagerUsable ==
  conn.close = "done" => ~conn.isShuttingDown

-----------------------------------------------------------------------------
\* Claims on tenant-scoped invalidation and its metrics (TenantSpec)

\* the tenant segment of a key entity:operation:asiakasId[:more]
TenantOf(key) == Split(key)[3]

\* C32: invalidate(op, E, {asiakasId: A}) for a tenant-scoped rule deletes only
\* keys whose tenant segment is A; keys of tenants 10 or 12 and keys that
\* carry A in a later segment stay in the store.
C32_InvalidationStaysInTenant ==
  (Returned({"invalidate"}) /\ call.arg.entityType \in TenantEntityTypes
     /\ Truthy(call.arg.params.asiakasId))
    => \A k \in call.removed : TenantOf(k) = ToText(call.arg.params.asiakasId)

\* C35: an invalidate or invalidateByPattern call that returns n > 0 has added
\* n to the collector's total of invalidated keys, whatever the entity type.
C35_DeletionsAreRecorded ==
  (Returned({"invalidate", "byPattern"}) /\ call.ret = "count" /\ call.total > 0)
    => call.recorded = call.total

-----------------------------------------------------------------------------
\* Further claims on invalidation (CacheSpec)

\* the keys that matched the pattern of the invalidateByPattern call when it
\* started
MatchedAtStart == {k \in call.pre : GlobMatch(call.arg.pattern, k)}

\* C33: after invalidateByPattern(P) returned, every store command answered
\* and the scan ended by cursor "0", no key that matched P at the start of the
\* call is in the store (nothing writes keys while the call runs).
C33_InvalidationComplete ==
  (Returned({"byPattern"}) /\ call.client = "ok" /\ ~call.fault)
    => MatchedAtStart \cap cacheStore = {}

\* a call removed two matching keys that SCAN returned in different rounds
C33_Witness ==
  /\ Returned({"byPattern"}) /\ call.client = "ok" /\ ~call.fault
  /\ \E k1, k2 \in MatchedAtStart : SlotOf(k1) # SlotOf(k2)
  /\ MatchedAtStart \subseteq call.removed
  /\ MatchedAtStart \cap cacheStore = {}

\* C34: when the invalidateByPattern calls of one Promise.all have overlapping
\* patterns, the counts they return add up to at most the number of keys
\* removed from the store (every command answered, no key expiring).
C34_NoKeyCountedTwice ==
  (Returned({"invalidate", "cross"}) /\ call.client = "ok" /\ ~call.fault
     /\ ~call.lapsed /\ call.ret = "count")
    => call.total <= Cardinality(call.removed)

-----------------------------------------------------------------------------
\* Claims on the grid invalidation of a copy or move (GridSpec)

\* the grid keys of the day of a date input
GridKeysOf(dateInput) ==
  {k \in GridKeys : /\ Split(k)[1] = "grid"
                    /\ Split(k)[5] = formatGridDate(dateInput)}

\* C40: a KEIKKA_UPDATE with body.newDate set deletes, of the grid keys, only
\* those of newDate: the grid keys of body.pumppuAika and of any other day are
\* not deleted and, unless their TTL runs out, stay in the store.
C40_CopyInvalidatesTargetDateOnly ==
  (Returned({"cross"}) /\ call.arg.operation = "KEIKKA_UPDATE"
     /\ Truthy(call.arg.params.body.newDate))
    => \A k \in call.pre :
         (Split(k)[1] = "grid" /\ k \notin GridKeysOf(call.arg.params.body.newDate))
           => /\ k \notin call.removed
              /\ (k \in cacheStore \/ call.lapsed)

\* a move from one day to the next deleted the grid key of the target day and
\* left the one of the source day
C40_Witness ==
  /\ Returned({"cross"}) /\ call.arg.operation = "KEIKKA_UPDATE"
  /\ call.arg.params.body.newDate = NextDayStamp
  /\ call.arg.params.body.pumppuAika = IsoStamp
  /\ \E k \in GridKeysOf(NextDayStamp) : k \in call.removed
  /\ \E k \in GridKeysOf(IsoStamp) : k \in call.pre /\ k \in cacheStore

=============================================================================
